---- MODULE Spec2Model ----
(***************************************************************************)
(* Model of the EtherCAT / CiA 402 test bench core:                        *)
(*   - the DS402 protocol layer (ethercat_core/slaves/ds402/pdo.py),       *)
(*   - the DS402 slave adapter (ethercat_core/slaves/ds402/adapter.py),    *)
(*   - the cyclic loop (ethercat_core/loop.py).                            *)
(* Buffers are sequences of bytes (0..255); struct layouts are modelled by *)
(* their byte offsets, little-endian, as the format strings declare them.  *)
(***************************************************************************)
EXTENDS Integers, Sequences, FiniteSets, TLC

(***************************************************************************)
(* Generic helpers: bytes and bitwise operations.                          *)
(***************************************************************************)

\* Python's `a & b` on non-negative integers, bit by bit.
RECURSIVE BitAnd(_, _)
BitAnd(a, b) ==
    IF a = 0 \/ b = 0 THEN 0
    ELSE (a % 2) * (b % 2) + 2 * BitAnd(a \div 2, b \div 2)

\* bool(word & (1 << n))
BitSet(word, n) == (word \div (2 ^ n)) % 2 = 1

\* bytes(n): n zero bytes.
ZeroBytes(n) == [i \in 1..n |-> 0]

\* Width of the statusword / controlword: struct code "H" (unsigned 16 bit).
WordLimit == 65536

\* struct "<H": unsigned 16 bit, little-endian.
PackU16(v) == << v % 256, (v \div 256) % 256 >>

\* struct "<b": signed 8 bit, two's complement.
PackI8(v) == << v % 256 >>

\* struct "<i": signed 32 bit, two's complement, little-endian (floor
\* division and non-negative remainders give the two's complement bytes).
PackI32(v) ==
    << v % 256, (v \div 256) % 256, (v \div 65536) % 256,
       (v \div 16777216) % 256 >>

\* struct "<f": the IEEE-754 binary32 bytes, little-endian, of the (small
\* integral) float values the model uses for gains and torque.
PackF32(x) ==
    CASE x = 0  -> << 0, 0, 0, 0 >>
      [] x = 1  -> << 0, 0, 128, 63 >>      \* 0x3F800000
      [] x = 2  -> << 0, 0, 0, 64 >>        \* 0x40000000
      [] x = -1 -> << 0, 0, 128, 191 >>     \* 0xBF800000

\* struct unpack_from at 0-based offset `off` (sequences are 1-based).
UnpackU8(b, off)  == b[off + 1]
UnpackU16(b, off) == b[off + 1] + 256 * b[off + 2]
UnpackI8(b, off) ==
    IF b[off + 1] >= 128 THEN b[off + 1] - 256 ELSE b[off + 1]
UnpackI16(b, off) ==
    IF UnpackU16(b, off) >= 32768 THEN UnpackU16(b, off) - 65536
    ELSE UnpackU16(b, off)
UnpackI32(b, off) ==
    b[off + 1] + 256 * b[off + 2] + 65536 * b[off + 3]
    + 16777216 * UnpackI8(b, off + 3)
\* A float field is carried as its four bytes (no arithmetic is done on it).
UnpackF32(b, off) == SubSeq(b, off + 1, off + 4)

(***************************************************************************)
(* DS402 data model (slaves/ds402/data_types.py).                          *)
(***************************************************************************)

DriveCiA402States ==
    { "NOT_READY_TO_SWITCH_ON", "SWITCH_ON_DISABLED", "READY_TO_SWITCH_ON",
      "SWITCHED_ON", "OPERATION_ENABLED", "QUICK_STOP_ACTIVE",
      "FAULT_REACTION_ACTIVE", "FAULT" }

\* ModeOfOperation values.
ModeOfOperation == {0, 1, 2, 4, 8, 9, 10}

\* Command(...) with every field at its dataclass default.
DefaultCommand ==
    [ mode_of_operation     |-> 0,
      target_torque_nm      |-> 0,
      target_velocity_rad_s |-> 0,
      target_position_rad   |-> 0,
      torque_command_2022   |-> 0,
      torque_kp             |-> 0,
      torque_loop_max_output |-> 0,
      torque_loop_min_output |-> 0,
      velocity_loop_kp      |-> 0,
      velocity_loop_ki      |-> 0,
      velocity_loop_kd      |-> 0,
      position_loop_kp      |-> 0,
      position_loop_ki      |-> 0,
      position_loop_kd      |-> 0,
      enable_drive          |-> FALSE,
      clear_fault           |-> FALSE ]

(***************************************************************************)
(* DS402 protocol layer (slaves/ds402/pdo.py).                             *)
(***************************************************************************)

\* RX_PDO_STRUCT = Struct("<Hbiiffffffffff").size
RX_PDO_SIZE == 51
\* TX_PDO_STRUCT = Struct("<HbifhfHiiiffffff").size
TX_PDO_SIZE == 55
\* LEGACY_TX_PDO_STRUCT = Struct("<HbHhiiB").size
LEGACY_TX_PDO_SIZE == 16
AL_STATE_OPERATIONAL == 8

_clamp_i32(value) ==
    IF value > 2147483647 THEN 2147483647
    ELSE IF value < -2147483647 - 1 THEN -2147483647 - 1
    ELSE value

\* Variant of StatePatterns with the masks of the baseline codec
\* (ethercat_core/pdo.py), which compares the ready / switched-on /
\* operation-enabled values under the 0x004F mask.
StatePatternsBaseline ==
    << [mask |-> 79,  value |-> 0,  state |-> "NOT_READY_TO_SWITCH_ON"],
       [mask |-> 79,  value |-> 64, state |-> "SWITCH_ON_DISABLED"],
       [mask |-> 79,  value |-> 33, state |-> "READY_TO_SWITCH_ON"],
       [mask |-> 79,  value |-> 35, state |-> "SWITCHED_ON"],
       [mask |-> 79,  value |-> 39, state |-> "OPERATION_ENABLED"],
       [mask |-> 111, value |-> 7,  state |-> "QUICK_STOP_ACTIVE"],
       [mask |-> 79,  value |-> 15, state |-> "FAULT_REACTION_ACTIVE"],
       [mask |-> 79,  value |-> 8,  state |-> "FAULT"] >>

\* The comparisons of decode_cia402_state in source order: the status word is
\* masked with `mask` and compared with `value`.
StatePatterns ==
    << [mask |-> 79,  value |-> 0,  state |-> "NOT_READY_TO_SWITCH_ON"],
       [mask |-> 79,  value |-> 64, state |-> "SWITCH_ON_DISABLED"],
       [mask |-> 111, value |-> 33, state |-> "READY_TO_SWITCH_ON"],
       [mask |-> 111, value |-> 35, state |-> "SWITCHED_ON"],
       [mask |-> 111, value |-> 39, state |-> "OPERATION_ENABLED"],
       [mask |-> 111, value |-> 7,  state |-> "QUICK_STOP_ACTIVE"],
       [mask |-> 79,  value |-> 15, state |-> "FAULT_REACTION_ACTIVE"],
       [mask |-> 79,  value |-> 8,  state |-> "FAULT"] >>

\* Indices of the comparisons that `status_word` satisfies.
MatchingPatterns(status_word) ==
    { i \in DOMAIN StatePatterns :
        BitAnd(status_word, StatePatterns[i].mask) = StatePatterns[i].value }

Min(S) == CHOOSE x \in S : \A y \in S : x <= y

\* First matching comparison wins; the final `return` is the fallback.
decode_cia402_state(status_word) ==
    LET matching == MatchingPatterns(status_word)
    IN IF matching = {}
       THEN "NOT_READY_TO_SWITCH_ON"
       ELSE StatePatterns[Min(matching)].state

\* decode_cia402_state of the baseline codec (ethercat_core/pdo.py): the
\* same comparisons in the same order, those of the ready, switched-on and
\* operation-enabled values made on state_004f.
pdo_decode_cia402_state(status_word) ==
    LET state_004f == BitAnd(status_word, 79)
        state_006f == BitAnd(status_word, 111)
    IN IF state_004f = 0 THEN "NOT_READY_TO_SWITCH_ON"
       ELSE IF state_004f = 64 THEN "SWITCH_ON_DISABLED"
       ELSE IF state_004f = 33 THEN "READY_TO_SWITCH_ON"
       ELSE IF state_004f = 35 THEN "SWITCHED_ON"
       ELSE IF state_004f = 39 THEN "OPERATION_ENABLED"
       ELSE IF state_006f = 7 THEN "QUICK_STOP_ACTIVE"
       ELSE IF state_004f = 15 THEN "FAULT_REACTION_ACTIVE"
       ELSE IF state_004f = 8 THEN "FAULT"
       ELSE "NOT_READY_TO_SWITCH_ON"

\* The decoder of a codec, applied to one status word.
DecoderOf(codec, status_word) ==
    IF codec = "ethercat_core.pdo" THEN pdo_decode_cia402_state(status_word)
    ELSE decode_cia402_state(status_word)

\* Variant of _decode_statusword_bits that reports bit 5 as it is.
_decode_statusword_bits_plain(status_word) ==
    [ ready_to_switch_on |-> BitSet(status_word, 0),
      switched_on        |-> BitSet(status_word, 1),
      operation_enabled  |-> BitSet(status_word, 2),
      fault              |-> BitSet(status_word, 3),
      voltage_enabled    |-> BitSet(status_word, 4),
      quick_stop_active  |-> BitSet(status_word, 5),
      switch_on_disabled |-> BitSet(status_word, 6),
      warning            |-> BitSet(status_word, 7),
      remote             |-> BitSet(status_word, 9),
      target_reached     |-> BitSet(status_word, 10) ]

_decode_statusword_bits(status_word) ==
    [ ready_to_switch_on |-> BitSet(status_word, 0),
      switched_on        |-> BitSet(status_word, 1),
      operation_enabled  |-> BitSet(status_word, 2),
      fault              |-> BitSet(status_word, 3),
      voltage_enabled    |-> BitSet(status_word, 4),
      quick_stop_active  |-> ~BitSet(status_word, 5),
      switch_on_disabled |-> BitSet(status_word, 6),
      warning            |-> BitSet(status_word, 7),
      remote             |-> BitSet(status_word, 9),
      target_reached     |-> BitSet(status_word, 10) ]

\* Variant of _controlword_from_command that ignores the drive state, as the
\* baseline codec (ethercat_core/pdo.py) does.
_controlword_from_command_stateless(command, current_state) ==
    IF command.clear_fault THEN 128
    ELSE IF command.enable_drive THEN 15
    ELSE 6

_controlword_from_command(command, current_state) ==
    IF command.clear_fault /\ current_state = "FAULT" THEN 128
    ELSE IF ~command.enable_drive THEN
        IF current_state \in { "OPERATION_ENABLED", "SWITCHED_ON",
                               "READY_TO_SWITCH_ON", "SWITCH_ON_DISABLED",
                               "QUICK_STOP_ACTIVE" }
        THEN 6      \* Shutdown
        ELSE 0      \* Disable voltage
    ELSE IF current_state = "SWITCH_ON_DISABLED" THEN 6
    ELSE IF current_state = "READY_TO_SWITCH_ON" THEN 7
    ELSE IF current_state = "SWITCHED_ON" THEN 15
    ELSE IF current_state = "OPERATION_ENABLED" THEN 15
    ELSE IF current_state = "QUICK_STOP_ACTIVE" THEN 15
    ELSE IF current_state = "FAULT" THEN (IF command.clear_fault THEN 128 ELSE 0)
    ELSE 0

\* PdoScaling(): the factors at the defaults of the dataclass, which are also
\* the defaults of _build_adapter.
PdoScalingDefaults ==
    [ torque_lsb_per_nm |-> 10, velocity_lsb_per_rad_s |-> 1000,
      position_lsb_per_rad |-> 10000 ]

\* Variant of pack_command that takes the controlword for the state of
\* status word 0, whatever status word it is given.
pack_command_from_reset(command, scaling, current_status_word) ==
    LET current_state == decode_cia402_state(0)
        controlword == _controlword_from_command(command, current_state)
        mode == command.mode_of_operation
        target_velocity == _clamp_i32(command.target_velocity_rad_s)
        target_position == _clamp_i32(command.target_position_rad)
        torque_command_2022 ==
            IF command.torque_command_2022 # 0 THEN command.torque_command_2022
            ELSE command.target_torque_nm
    IN  PackU16(controlword) \o PackI8(mode)
        \o PackI32(target_position) \o PackI32(target_velocity)
        \o PackF32(torque_command_2022)
        \o PackF32(command.torque_kp)
        \o PackF32(command.torque_loop_max_output)
        \o PackF32(command.torque_loop_min_output)
        \o PackF32(command.velocity_loop_kp)
        \o PackF32(command.velocity_loop_ki)
        \o PackF32(command.velocity_loop_kd)
        \o PackF32(command.position_loop_kp)
        \o PackF32(command.position_loop_ki)
        \o PackF32(command.position_loop_kd)

\* pack_command: the targets are integral values here, so round() keeps them.
\* `scaling` is taken and dropped (`_ = scaling`, line 124).
pack_command(command, scaling, current_status_word) ==
    LET current_state == decode_cia402_state(current_status_word)
        controlword == _controlword_from_command(command, current_state)
        mode == command.mode_of_operation
        target_velocity == _clamp_i32(command.target_velocity_rad_s)
        target_position == _clamp_i32(command.target_position_rad)
        torque_command_2022 ==
            IF command.torque_command_2022 # 0 THEN command.torque_command_2022
            ELSE command.target_torque_nm
    IN  PackU16(controlword) \o PackI8(mode)
        \o PackI32(target_position) \o PackI32(target_velocity)
        \o PackF32(torque_command_2022)
        \o PackF32(command.torque_kp)
        \o PackF32(command.torque_loop_max_output)
        \o PackF32(command.torque_loop_min_output)
        \o PackF32(command.velocity_loop_kp)
        \o PackF32(command.velocity_loop_ki)
        \o PackF32(command.velocity_loop_kd)
        \o PackF32(command.position_loop_kp)
        \o PackF32(command.position_loop_ki)
        \o PackF32(command.position_loop_kd)

\* The fields unpack_status reads from the buffer, by layout:
\* TX_PDO_STRUCT when the buffer is long enough for it, else the legacy layout.
UnpackFields(pdo) ==
    IF Len(pdo) >= TX_PDO_SIZE
    THEN [ status_word           |-> UnpackU16(pdo, 0),
           mode_display          |-> UnpackI8(pdo, 2),
           measured_position_raw |-> UnpackI32(pdo, 3),
           measured_bus_voltage_v |-> UnpackF32(pdo, 7),
           measured_torque_raw   |-> UnpackI16(pdo, 11),
           error_code            |-> UnpackU16(pdo, 17),
           measured_velocity_raw |-> UnpackI32(pdo, 19),
           received_velocity_command_raw |-> UnpackF32(pdo, 31),
           al_state_code         |->
               IF UnpackU16(pdo, 0) # 0 THEN AL_STATE_OPERATIONAL ELSE 0 ]
    ELSE [ status_word           |-> UnpackU16(pdo, 0),
           mode_display          |-> UnpackI8(pdo, 2),
           error_code            |-> UnpackU16(pdo, 3),
           measured_torque_raw   |-> UnpackI16(pdo, 5),
           measured_velocity_raw |-> UnpackI32(pdo, 7),
           measured_position_raw |-> UnpackI32(pdo, 11),
           al_state_code         |-> UnpackU8(pdo, 15),
           measured_bus_voltage_v |-> PackF32(0),
           received_velocity_command_raw |-> PackF32(0) ]

\* Variant of unpack_status that accepts only a buffer of exactly the size of
\* TX_PDO_STRUCT.
unpack_status_strict(pdo, seq, stamp_ns, cycle_time_ns, dc_time_error_ns) ==
    IF Len(pdo) # TX_PDO_SIZE
    THEN [ ok |-> FALSE, error |-> "ValueError: TX PDO payload size mismatch" ]
    ELSE
      LET f == UnpackFields(pdo)
          cia402_state == decode_cia402_state(f.status_word)
          al_state_base == BitAnd(f.al_state_code, 15)
      IN [ ok |-> TRUE,
           status |->
             [ online        |-> al_state_base # 0,
               operational   |-> al_state_base = AL_STATE_OPERATIONAL,
               faulted       |-> cia402_state \in {"FAULT", "FAULT_REACTION_ACTIVE"},
               al_state_code |-> f.al_state_code,
               cia402_state  |-> cia402_state,
               status_word   |-> f.status_word,
               mode_of_operation_display |-> f.mode_display,
               error_code    |-> f.error_code,
               bits          |-> _decode_statusword_bits(f.status_word),
               measured_torque_nm      |-> f.measured_torque_raw,
               measured_velocity_rad_s |-> f.measured_velocity_raw,
               measured_position_rad   |-> f.measured_position_raw,
               velocity_command_received |-> f.received_velocity_command_raw,
               bus_voltage      |-> f.measured_bus_voltage_v,
               dc_time_error_ns |-> dc_time_error_ns,
               cycle_time_ns    |-> cycle_time_ns,
               seq              |-> seq,
               stamp_ns         |-> stamp_ns ] ]

\* unpack_status: a ValueError is the result [ok |-> FALSE]; otherwise the
\* DriveStatus built from the unpacked fields and the cycle metadata.
\* The DriveStatus built from the unpacked fields f.
StatusFromFields(f, seq, stamp_ns, cycle_time_ns, dc_time_error_ns) ==
      LET cia402_state == decode_cia402_state(f.status_word)
          status_bits == _decode_statusword_bits(f.status_word)
          al_state_base == BitAnd(f.al_state_code, 15)
      IN [ ok |-> TRUE,
           status |->
             [ online        |-> al_state_base # 0,
               operational   |-> al_state_base = AL_STATE_OPERATIONAL,
               faulted       |-> cia402_state \in {"FAULT", "FAULT_REACTION_ACTIVE"},
               al_state_code |-> f.al_state_code,
               cia402_state  |-> cia402_state,
               status_word   |-> f.status_word,
               mode_of_operation_display |-> f.mode_display,
               error_code    |-> f.error_code,
               bits          |-> status_bits,
               measured_torque_nm      |-> f.measured_torque_raw,
               measured_velocity_rad_s |-> f.measured_velocity_raw,
               measured_position_rad   |-> f.measured_position_raw,
               velocity_command_received |-> f.received_velocity_command_raw,
               bus_voltage      |-> f.measured_bus_voltage_v,
               dc_time_error_ns |-> dc_time_error_ns,
               cycle_time_ns    |-> cycle_time_ns,
               seq              |-> seq,
               stamp_ns         |-> stamp_ns ] ]

\* The buffer is unpacked once; its fields make the status.
unpack_status(pdo, seq, stamp_ns, cycle_time_ns, dc_time_error_ns) ==
    IF Len(pdo) < LEGACY_TX_PDO_SIZE
    THEN [ ok |-> FALSE, error |-> "ValueError: TX PDO payload too small" ]
    ELSE CHOOSE r \in { StatusFromFields(f, seq, stamp_ns, cycle_time_ns,
                                         dc_time_error_ns) :
                        f \in { UnpackFields(pdo) } } : TRUE

(***************************************************************************)
(* Slave adapters (slaves/base.py, slaves/ds402/adapter.py).               *)
(* Two slaves are configured: "drive1" is a Ds402SlaveAdapter, "aux" is    *)
(* another implementation of the SlaveAdapter protocol, of which only the  *)
(* protocol's signatures are known: its pack_rx_pdo may return a payload   *)
(* of any length.                                                          *)
(***************************************************************************)

\* The value standing for "no status" when a decode raised.
NoStatus == [n \in {} |-> 0]

\* runtime.adapters, in dict order.
SlaveNames == << "drive1", "aux" >>
SlaveSet == { SlaveNames[i] : i \in DOMAIN SlaveNames }

AdapterKind(name) == IF name = "drive1" THEN "ds402" ELSE "protocol"

\* Declared PDO sizes of the protocol adapter of "aux".
AuxRxSize == 3
AuxTxSize == 2

rx_pdo_size(name) ==
    IF AdapterKind(name) = "ds402" THEN RX_PDO_SIZE ELSE AuxRxSize

tx_pdo_size(name) ==
    IF AdapterKind(name) = "ds402" THEN TX_PDO_SIZE ELSE AuxTxSize

\* Commands of the protocol adapter are opaque tags; its payload carries the tag.
AuxCommands == { 161, 178 }
AuxPayload(command, len) == [i \in 1..len |-> command]

\* adapter.pack_rx_pdo(command): the set of payloads the call may return.
\* Ds402SlaveAdapter passes its remembered status word to pack_command.
pack_rx_pdo(name, command, lsw) ==
    IF AdapterKind(name) = "ds402"
    THEN { pack_command(command, PdoScalingDefaults, lsw) }
    ELSE { AuxPayload(command, len) : len \in (AuxRxSize - 1)..(AuxRxSize + 1) }

\* adapter.unpack_tx_pdo(pdo, seq=..., ...): result and the adapter's
\* _last_status_word afterwards.  A raised ValueError leaves the assignment
\* of line 79 unexecuted.
\* Variant of unpack_tx_pdo that remembers the status word of the raw buffer
\* before unpack_status has validated the buffer.
unpack_tx_pdo_eager(name, pdo, lsw, seq, stamp_ns, cycle_time_ns, dc_time_error_ns) ==
    IF AdapterKind(name) = "ds402"
    THEN LET r == unpack_status(pdo, seq, stamp_ns, cycle_time_ns, dc_time_error_ns)
             word == IF Len(pdo) >= 2 THEN UnpackU16(pdo, 0) ELSE lsw
         IN IF r.ok
            THEN [ ok |-> TRUE, status |-> r.status, last_status_word |-> word ]
            ELSE [ ok |-> FALSE, status |-> NoStatus, last_status_word |-> word ]
    ELSE [ ok |-> TRUE, status |-> [ raw |-> pdo ], last_status_word |-> lsw ]

\* Variant of unpack_tx_pdo in which the adapter does not remember the
\* status word it decoded.
unpack_tx_pdo_forgetful(name, pdo, lsw, seq, stamp_ns, cycle_time_ns, dc_time_error_ns) ==
    IF AdapterKind(name) = "ds402"
    THEN LET r == unpack_status(pdo, seq, stamp_ns, cycle_time_ns, dc_time_error_ns)
         IN IF r.ok
            THEN [ ok |-> TRUE, status |-> r.status, last_status_word |-> lsw ]
            ELSE [ ok |-> FALSE, status |-> NoStatus, last_status_word |-> lsw ]
    ELSE [ ok |-> TRUE, status |-> [ raw |-> pdo ], last_status_word |-> lsw ]

\* Ds402SlaveAdapter.unpack_tx_pdo: the status, and the status word the
\* adapter remembers afterwards (line 79 is not reached when unpack_status
\* raises).  The other adapter hands the raw buffer on.
unpack_tx_pdo(name, pdo, lsw, seq, stamp_ns, cycle_time_ns, dc_time_error_ns) ==
    IF AdapterKind(name) = "ds402"
    THEN LET r == unpack_status(pdo, seq, stamp_ns, cycle_time_ns, dc_time_error_ns)
         IN IF r.ok
            THEN [ ok |-> TRUE, status |-> r.status,
                   last_status_word |-> r.status.status_word ]
            ELSE [ ok |-> FALSE, status |-> NoStatus, last_status_word |-> lsw ]
    ELSE [ ok |-> TRUE, status |-> [ raw |-> pdo ], last_status_word |-> lsw ]

(***************************************************************************)
(* State.                                                                  *)
(***************************************************************************)

VARIABLES
    pending_command,   \* EthercatLoop._pending_command
    latest_status,     \* EthercatLoop._latest_status
    stats,             \* EthercatLoop._stats
    thread,            \* EthercatLoop._thread: None or a driver thread id
    stop_event,        \* EthercatLoop._stop_event
    pc,                \* position of every thread
    loc,               \* locals of the run_once call of every thread
    next_tick,         \* local next_tick of _run_forever, per driver thread
    output,            \* slave.output, per slave
    input,             \* slave.input, per slave
    last_status_word,  \* adapter._last_status_word, per slave
    now,               \* time.monotonic_ns(), in ticks
    got,               \* the value get_status returned last
    call,              \* the protocol-layer call under test and its result
    hist,              \* history: the submission stored last (index into
                       \* Submissions, 0: none), the submissions since the
                       \* last snapshot (2: two or more), the cycles started,
                       \* the seq assigned last and the highest one before it,
                       \* the lifecycle call that returned last and the
                       \* number of statuses installed
    bringup            \* EthercatMaster: the call of initialize() (position,
                       \* locals), the pysoem master it drives and _runtime

vars == << pending_command, latest_status, stats, thread, stop_event, pc, loc,
           next_tick, output, input, last_status_word, now, got, call, hist,
           bringup >>

loopVars == << pending_command, latest_status, stats, thread, stop_event, pc,
               loc, next_tick, output, input, now, got, hist, bringup >>

(***************************************************************************)
(* Threads, inputs and bounds.                                             *)
(***************************************************************************)

\* run_once calls (cycles) started in a behaviour.
MaxCycles == 2
\* Nominal cycle period, in clock ticks (self._cycle_ns).
CycleTicks == 2
\* Longest buffer the bus hands to a decoder in the adapter harness.
MaxFrameLen == 57

\* Application threads calling the loop's API.
AppThreads == { << "app", 1 >>, << "app", 2 >> }
\* Thread objects start() can create.
Drivers    == { << "drv", 1 >>, << "drv", 2 >> }
Threads    == AppThreads \cup Drivers
MainThread == << "app", 1 >>
NoThread   == << "none", 0 >>

EmptyMap == [n \in {} |-> 0]

\* SystemCommand() / SystemStatus(): an empty by_slave map, seq and stamp 0.
DefaultSystemCommand == [ by_slave |-> EmptyMap, seq |-> 0, stamp_ns |-> 0 ]
DefaultSystemStatus  == [ by_slave |-> EmptyMap, seq |-> 0, stamp_ns |-> 0 ]

\* Commands the applications build (tests/ds402_enable_sequence.py:95-111).
CmdReset ==
    [ DefaultCommand EXCEPT !.mode_of_operation = 10, !.clear_fault = TRUE ]
CmdEnable ==
    [ DefaultCommand EXCEPT !.mode_of_operation = 10, !.enable_drive = TRUE,
                            !.target_torque_nm = 1 ]

\* SystemCommand(by_slave={...}) values the applications submit; the scripts
\* pass no seq, so it has its default.
Submissions ==
    << [ by_slave |-> [n \in {"drive1"} |-> CmdReset], seq |-> 0, stamp_ns |-> 0 ],
       [ by_slave |-> [n \in {"drive1", "aux"} |->
                          IF n = "drive1" THEN CmdEnable ELSE 161],
         seq |-> 0, stamp_ns |-> 0 ],
       [ by_slave |-> [n \in {"aux"} |-> 178], seq |-> 0, stamp_ns |-> 0 ] >>

\* A TX buffer of `len` bytes carrying `sw` in its first two bytes and a
\* position-dependent pattern elsewhere.
TxFrame(len, sw) ==
    [ i \in 1..len |->
        IF i = 1 THEN sw % 256
        ELSE IF i = 2 THEN (sw \div 256) % 256
        ELSE (i * 7) % 256 ]

\* Outcomes of receive_processdata(2000): the working counter returned, the
\* ticks the call took and the input buffer of "drive1" afterwards.  The bus
\* answers in time with the mapped layout (OPERATION_ENABLED), or answers in
\* time with a buffer one byte short of the legacy layout, or times out
\* (wkc 0) after the whole bounded wait, which is longer than the cycle
\* period, leaving a legacy-sized buffer (FAULT).
RecvOutcomes ==
    { [ wkc |-> 2, ticks |-> 1, frame |-> TxFrame(TX_PDO_SIZE, 567) ],
      [ wkc |-> 2, ticks |-> 1, frame |-> TxFrame(LEGACY_TX_PDO_SIZE - 1, 0) ],
      [ wkc |-> 0, ticks |-> 3, frame |-> TxFrame(LEGACY_TX_PDO_SIZE, 8) ] }

\* A healthy bus: every receive succeeds and delivers the mapped layout.
NominalOutcomes ==
    { [ wkc |-> 2, ticks |-> 1, frame |-> TxFrame(TX_PDO_SIZE, 567) ] }

IdleLoc ==
    [ command |-> DefaultSystemCommand, src |-> 0, raced |-> 0,
      start_ns |-> 0, end_ns |-> 0,
      i |-> 1, wkc |-> 0, status_by_slave |-> EmptyMap,
      packed |-> << >>, sends |-> 0, recvs |-> 0, error |-> "" ]

\* The state after EthercatLoop.__init__ on an initialized runtime.
InitLoop ==
    /\ pending_command = DefaultSystemCommand
    /\ latest_status = DefaultSystemStatus
    /\ stats = [ cycle_count |-> 0, last_wkc |-> 0,
                 last_cycle_time_ns |-> 0, last_dc_error_ns |-> 0 ]
    /\ thread = NoThread
    /\ stop_event = FALSE
    /\ pc = [ t \in Threads |-> IF t \in AppThreads THEN "idle" ELSE "unborn" ]
    /\ loc = [ t \in Threads |-> IdleLoc ]
    /\ next_tick = [ d \in Drivers |-> 0 ]
    /\ output = [ n \in SlaveSet |-> ZeroBytes(rx_pdo_size(n)) ]
    /\ input = [ n \in SlaveSet |-> ZeroBytes(tx_pdo_size(n)) ]
    /\ last_status_word = [ n \in SlaveSet |-> 0 ]
    /\ now = 0
    /\ got = DefaultSystemStatus
    /\ hist = [ submitted |-> 0, raced |-> 0, cycles |-> 0, last_seq |-> 0,
                prev_max |-> 0, returned |-> "none", installed |-> 0,
                held |-> EmptyMap ]

(***************************************************************************)
(* EthercatLoop: the API called by application threads.                    *)
(***************************************************************************)

\* set_command: replaces the pending command under the lock.
\* Variant of StoredCommand that updates the pending map with the submitted
\* entries instead of replacing the pending command.
StoredCommandMerged(command) ==
    [ command EXCEPT !.by_slave =
        [ n \in DOMAIN pending_command.by_slave \cup DOMAIN command.by_slave |->
            IF n \in DOMAIN command.by_slave THEN command.by_slave[n]
            ELSE pending_command.by_slave[n] ] ]

StoredCommand(command) == command

SetCommand(a, k) ==
    /\ pc[a] = "idle"
    /\ pending_command' = StoredCommand(Submissions[k])
    /\ hist' = [ hist EXCEPT !.submitted = k,
                              !.raced = IF @ < 2 THEN @ + 1 ELSE 2 ]
    /\ UNCHANGED << latest_status, stats, thread, stop_event, pc, loc, next_tick,
                    output, input, last_status_word, now, got, call, bringup >>

\* get_status: copies the latest status out under the lock.
StatusCopy(status) ==
    [ by_slave |-> status.by_slave, seq |-> status.seq, stamp_ns |-> status.stamp_ns ]

GetStatus(a) ==
    /\ pc[a] = "idle"
    /\ got' = StatusCopy(latest_status)
    /\ UNCHANGED << pending_command, latest_status, stats, thread, stop_event, pc,
                    loc, next_tick, output, input, last_status_word, now, call, bringup,
                    hist >>

\* self._thread.is_alive()
IsAlive(d) == pc[d] \notin { "unborn", "created", "dead" }

\* start(), line 103: return when a driver thread is alive.
StartCheck(a) ==
    /\ pc[a] = "idle"
    /\ \E d \in Drivers : pc[d] = "unborn"
    /\ IF thread # NoThread /\ IsAlive(thread)
       THEN /\ pc' = pc
            /\ hist' = [ hist EXCEPT !.returned = "start" ]
       ELSE /\ pc' = [ pc EXCEPT ![a] = "start_clear" ]
            /\ hist' = hist
    /\ UNCHANGED << pending_command, latest_status, stats, thread, stop_event, loc,
                    next_tick, output, input, last_status_word, now, got, call, bringup >>

\* Variant of StartClear that also starts the statistics afresh.
StartClearResetsStats(a) ==
    /\ pc[a] = "start_clear"
    /\ stop_event' = FALSE
    /\ stats' = [ cycle_count |-> 0, last_wkc |-> 0,
                  last_cycle_time_ns |-> 0, last_dc_error_ns |-> 0 ]
    /\ pc' = [ pc EXCEPT ![a] = "start_create" ]
    /\ UNCHANGED << pending_command, latest_status, thread, loc, next_tick,
                    output, input, last_status_word, now, got, call, bringup, hist >>

\* start(), line 105.
StartClear(a) ==
    /\ pc[a] = "start_clear"
    /\ stop_event' = FALSE
    /\ pc' = [ pc EXCEPT ![a] = "start_create" ]
    /\ UNCHANGED << pending_command, latest_status, stats, thread, loc, next_tick,
                    output, input, last_status_word, now, got, call, bringup, hist >>

\* start(), line 106: a new Thread object, not yet started.
StartCreate(a) ==
    /\ pc[a] = "start_create"
    /\ \E d \in Drivers :
         /\ pc[d] = "unborn"
         /\ \A e \in Drivers : pc[e] = "unborn" => d[2] <= e[2]
         /\ thread' = d
         /\ pc' = [ pc EXCEPT ![a] = "start_start", ![d] = "created" ]
    /\ UNCHANGED << pending_command, latest_status, stats, stop_event, loc,
                    next_tick, output, input, last_status_word, now, got, call, bringup,
                    hist >>

\* start(), line 107: self._thread.start(); starting a thread a second time
\* raises RuntimeError in the caller.
StartStart(a) ==
    /\ pc[a] = "start_start"
    /\ pc' = [ pc EXCEPT ![a] = "idle",
                         ![thread] = IF @ = "created" THEN "rf_begin" ELSE @ ]
    /\ hist' = [ hist EXCEPT !.returned = IF pc[thread] = "created" THEN "start"
                                          ELSE "error" ]
    /\ UNCHANGED << pending_command, latest_status, stats, thread, stop_event, loc,
                    next_tick, output, input, last_status_word, now, got, call, bringup >>

\* stop(), line 110.
StopSet(a) ==
    /\ pc[a] = "idle"
    /\ stop_event' = TRUE
    /\ pc' = [ pc EXCEPT ![a] = "stop_join" ]
    /\ UNCHANGED << pending_command, latest_status, stats, thread, loc, next_tick,
                    output, input, last_status_word, now, got, call, bringup, hist >>

\* stop(), lines 111-112: join returns when the thread has ended or when the
\* timeout expires (joining a thread that was never started raises).
StopJoin(a) ==
    /\ pc[a] = "stop_join"
    /\ pc' = [ pc EXCEPT ![a] = "idle" ]
    /\ hist' = [ hist EXCEPT !.returned = IF thread # NoThread /\ pc[thread] = "created"
                                          THEN "error" ELSE "stop" ]
    /\ UNCHANGED << pending_command, latest_status, stats, thread, stop_event, loc,
                    next_tick, output, input, last_status_word, now, got, call, bringup >>

\* A direct call of run_once by an application thread.
RunOnceCall(a) ==
    /\ pc[a] = "idle"
    /\ hist.cycles < MaxCycles
    /\ pc' = [ pc EXCEPT ![a] = "ro_snapshot" ]
    /\ UNCHANGED << pending_command, latest_status, stats, thread, stop_event, loc,
                    next_tick, output, input, last_status_word, now, got, call, bringup,
                    hist >>

(***************************************************************************)
(* EthercatLoop.run_once, one step per statement group; thread t is either *)
(* a driver thread inside _run_forever or an application thread.           *)
(***************************************************************************)

AfterReturn(t) == IF t \in AppThreads THEN "idle" ELSE "rf_tick"
\* Variant of AfterRaise in which _run_forever catches the exception of a
\* cycle and goes on with the next tick.
AfterRaiseCaught(t) == IF t \in AppThreads THEN "idle" ELSE "rf_tick"

\* An exception leaves run_once; in a driver thread it ends _run_forever.
AfterRaise(t)  == IF t \in AppThreads THEN "idle" ELSE "dead"

\* _snapshot_command: the command stored as pending and returned.
_snapshot_command(pending, stamp_ns) ==
    [ by_slave |-> pending.by_slave, seq |-> pending.seq + 1, stamp_ns |-> stamp_ns ]

\* Variant of Snapshot in which a pending command is consumed by the cycle
\* that takes it: the pending command is left without entries.
SnapshotConsumes(t) ==
    /\ pc[t] = "ro_snapshot"
    /\ hist.cycles < MaxCycles
    /\ LET command == _snapshot_command(pending_command, now)
       IN /\ pending_command' = [ command EXCEPT !.by_slave = EmptyMap ]
          /\ loc' = [ loc EXCEPT ![t] =
                        [ IdleLoc EXCEPT !.command = command,
                                         !.src = hist.submitted,
                                         !.raced = hist.raced,
                                         !.start_ns = now ] ]
          /\ hist' = [ hist EXCEPT
                         !.cycles = @ + 1,
                         !.raced = 0,
                         !.held = command.by_slave,
                         !.last_seq = command.seq,
                         !.prev_max = IF hist.cycles = 0 THEN 0
                                      ELSE IF hist.last_seq > @ THEN hist.last_seq
                                      ELSE @ ]
    /\ pc' = [ pc EXCEPT ![t] = "ro_encode" ]
    /\ UNCHANGED << latest_status, stats, thread, stop_event, next_tick, output,
                    input, last_status_word, now, got, call, bringup >>

\* Lines 66-67: read the clock, snapshot and replace the pending command.
\* hist.held keeps the entries of the snapshot for the cycle after it.
Snapshot(t) ==
    /\ pc[t] = "ro_snapshot"
    /\ hist.cycles < MaxCycles
    /\ LET command == _snapshot_command(pending_command, now)
       IN /\ pending_command' = command
          /\ loc' = [ loc EXCEPT ![t] =
                        [ IdleLoc EXCEPT !.command = command,
                                         !.src = hist.submitted,
                                         !.raced = hist.raced,
                                         !.start_ns = now ] ]
          /\ hist' = [ hist EXCEPT
                         !.cycles = @ + 1,
                         !.raced = 0,
                         !.held = command.by_slave,
                         !.last_seq = command.seq,
                         !.prev_max = IF hist.cycles = 0 THEN 0
                                      ELSE IF hist.last_seq > @ THEN hist.last_seq
                                      ELSE @ ]
    /\ pc' = [ pc EXCEPT ![t] = "ro_encode" ]
    /\ UNCHANGED << latest_status, stats, thread, stop_event, next_tick, output,
                    input, last_status_word, now, got, call, bringup >>

\* Variant of _encode_payload that packs a default Command for a missing
\* DS402 entry instead of zero-filling.
_encode_payload_default(name, by_slave, lsw) ==
    IF name \notin DOMAIN by_slave
    THEN { [ ok |-> TRUE,
             payload |-> IF AdapterKind(name) = "ds402"
                         THEN pack_command(DefaultCommand, PdoScalingDefaults, lsw)
                         ELSE ZeroBytes(rx_pdo_size(name)) ] }
    ELSE { IF Len(payload) # rx_pdo_size(name)
           THEN [ ok |-> FALSE, payload |-> payload ]
           ELSE [ ok |-> TRUE, payload |-> payload ]
           : payload \in pack_rx_pdo(name, by_slave[name], lsw) }

\* Variant of _encode_payload without the length check of lines 141-144.
_encode_payload_unchecked(name, by_slave, lsw) ==
    IF name \notin DOMAIN by_slave
    THEN { [ ok |-> TRUE, payload |-> ZeroBytes(rx_pdo_size(name)) ] }
    ELSE { [ ok |-> TRUE, payload |-> payload ]
           : payload \in pack_rx_pdo(name, by_slave[name], lsw) }

\* _encode_payload(adapter, command.by_slave.get(name)): the possible outcomes,
\* a payload or the ValueError of line 142.
_encode_payload(name, by_slave, lsw) ==
    IF name \notin DOMAIN by_slave
    THEN { [ ok |-> TRUE, payload |-> ZeroBytes(rx_pdo_size(name)) ] }
    ELSE { IF Len(payload) # rx_pdo_size(name)
           THEN [ ok |-> FALSE, payload |-> payload ]
           ELSE [ ok |-> TRUE, payload |-> payload ]
           : payload \in pack_rx_pdo(name, by_slave[name], lsw) }

\* Variant of EncodeSlave that encodes from the command pending at the time
\* the slave is encoded instead of from the cycle's snapshot.
EncodeSlavePending(t) ==
    /\ pc[t] = "ro_encode"
    /\ LET name == SlaveNames[loc[t].i]
       IN \E r \in _encode_payload(name, pending_command.by_slave,
                                   last_status_word[name]) :
            IF r.ok
            THEN /\ output' = [ output EXCEPT ![name] = r.payload ]
                 /\ loc' = [ loc EXCEPT ![t].i = @ + 1,
                                        ![t].packed = Append(@, Len(r.payload)) ]
                 /\ pc' = [ pc EXCEPT ![t] =
                              IF loc[t].i = Len(SlaveNames) THEN "ro_send"
                              ELSE "ro_encode" ]
            ELSE /\ output' = output
                 /\ loc' = [ loc EXCEPT ![t].error = "encode",
                                        ![t].packed = Append(@, Len(r.payload)) ]
                 /\ pc' = [ pc EXCEPT ![t] = AfterRaise(t) ]
    /\ UNCHANGED << pending_command, latest_status, stats, thread, stop_event,
                    next_tick, input, last_status_word, now, got, call, bringup, hist >>

\* Lines 70-73, one slave per step.
EncodeSlave(t) ==
    /\ pc[t] = "ro_encode"
    /\ LET name == SlaveNames[loc[t].i]
       IN \E r \in _encode_payload(name, loc[t].command.by_slave,
                                   last_status_word[name]) :
            IF r.ok
            THEN /\ output' = [ output EXCEPT ![name] = r.payload ]
                 /\ loc' = [ loc EXCEPT ![t].i = @ + 1,
                                        ![t].packed = Append(@, Len(r.payload)) ]
                 /\ pc' = [ pc EXCEPT ![t] =
                              IF loc[t].i = Len(SlaveNames) THEN "ro_send"
                              ELSE "ro_encode" ]
            ELSE /\ output' = output
                 /\ loc' = [ loc EXCEPT ![t].error = "encode",
                                        ![t].packed = Append(@, Len(r.payload)) ]
                 /\ pc' = [ pc EXCEPT ![t] = AfterRaise(t) ]
    /\ UNCHANGED << pending_command, latest_status, stats, thread, stop_event,
                    next_tick, input, last_status_word, now, got, call, bringup, hist >>

\* Variant of Send that may send the process data a second time.
SendAgain(t) ==
    /\ pc[t] = "ro_send"
    /\ loc[t].sends < 2
    /\ loc' = [ loc EXCEPT ![t].sends = @ + 1 ]
    /\ \E next \in { "ro_send", "ro_recv" } : pc' = [ pc EXCEPT ![t] = next ]
    /\ UNCHANGED << pending_command, latest_status, stats, thread, stop_event,
                    next_tick, output, input, last_status_word, now, got, call, bringup,
                    hist >>

\* Line 75: master.send_processdata().
Send(t) ==
    /\ pc[t] = "ro_send"
    /\ loc' = [ loc EXCEPT ![t].sends = @ + 1 ]
    /\ pc' = [ pc EXCEPT ![t] = "ro_recv" ]
    /\ UNCHANGED << pending_command, latest_status, stats, thread, stop_event,
                    next_tick, output, input, last_status_word, now, got, call, bringup,
                    hist >>

\* Variant of Receive that raises when the working counter is zero.
ReceiveChecked(t, outcomes) ==
    /\ pc[t] = "ro_recv"
    /\ \E r \in outcomes :
         /\ input' = [ n \in SlaveSet |->
                         IF n = "drive1" THEN r.frame ELSE ZeroBytes(tx_pdo_size(n)) ]
         /\ now' = now + r.ticks
         /\ loc' = [ loc EXCEPT ![t].wkc = r.wkc, ![t].end_ns = now + r.ticks,
                                ![t].recvs = @ + 1, ![t].i = 1,
                                ![t].error = IF r.wkc = 0 THEN "wkc" ELSE @ ]
         /\ pc' = [ pc EXCEPT ![t] = IF r.wkc = 0 THEN AfterRaise(t)
                                     ELSE "ro_decode" ]
    /\ UNCHANGED << pending_command, latest_status, stats, thread, stop_event,
                    next_tick, output, last_status_word, got, call, bringup, hist >>

\* Lines 76-78: receive_processdata(2000) fills the slaves' input buffers and
\* returns the working counter; then the clock is read.  The bus chooses the
\* outcome among `outcomes`.
Receive(t, outcomes) ==
    /\ pc[t] = "ro_recv"
    /\ \E r \in outcomes :
         /\ input' = [ n \in SlaveSet |->
                         IF n = "drive1" THEN r.frame ELSE ZeroBytes(tx_pdo_size(n)) ]
         /\ now' = now + r.ticks
         /\ loc' = [ loc EXCEPT ![t].wkc = r.wkc, ![t].end_ns = now + r.ticks,
                                ![t].recvs = @ + 1, ![t].i = 1 ]
    /\ pc' = [ pc EXCEPT ![t] = "ro_decode" ]
    /\ UNCHANGED << pending_command, latest_status, stats, thread, stop_event,
                    next_tick, output, last_status_word, got, call, bringup, hist >>

\* Lines 79-80.
CycleTime(l) == l.end_ns - l.start_ns
DcError(l)   == CycleTime(l) - CycleTicks

\* Lines 83-91, one slave per step.
DecodeSlave(t) ==
    /\ pc[t] = "ro_decode"
    /\ UNCHANGED << pending_command, latest_status, stats, thread, stop_event,
                    next_tick, output, input, now, got, call, bringup, hist >>
    /\ LET name == SlaveNames[loc[t].i]
       IN \E r \in { unpack_tx_pdo(name, input[name], last_status_word[name],
                                    loc[t].command.seq, loc[t].end_ns,
                                    CycleTime(loc[t]), DcError(loc[t])) } :
          IF r.ok
          THEN /\ loc' = [ loc EXCEPT
                             ![t].status_by_slave =
                                 [ n \in DOMAIN @ \cup {name} |->
                                     IF n = name THEN r.status ELSE @[n] ],
                             ![t].i = @ + 1 ]
               /\ last_status_word' =
                      [ last_status_word EXCEPT ![name] = r.last_status_word ]
               /\ pc' = [ pc EXCEPT ![t] =
                            IF loc[t].i = Len(SlaveNames) THEN "ro_publish"
                            ELSE "ro_decode" ]
          ELSE /\ loc' = [ loc EXCEPT ![t].error = "decode" ]
               /\ last_status_word' =
                      [ last_status_word EXCEPT ![name] = r.last_status_word ]
               /\ pc' = [ pc EXCEPT ![t] = AfterRaise(t) ]

\* Variant of CycleStatus that reads seq from the shared pending command
\* instead of the cycle's snapshot.
CycleStatusPending(l) ==
    [ by_slave |-> l.status_by_slave, seq |-> pending_command.seq,
      stamp_ns |-> l.end_ns ]

\* Line 93: the SystemStatus of the cycle.
CycleStatus(l) ==
    [ by_slave |-> l.status_by_slave, seq |-> l.command.seq, stamp_ns |-> l.end_ns ]

\* Lines 94-100: publish status and stats under the lock, return; the locals
\* of the call are gone afterwards.
Publish(t) ==
    /\ pc[t] = "ro_publish"
    /\ latest_status' = CycleStatus(loc[t])
    /\ stats' = [ cycle_count |-> stats.cycle_count + 1,
                  last_wkc |-> loc[t].wkc,
                  last_cycle_time_ns |-> CycleTime(loc[t]),
                  last_dc_error_ns |-> DcError(loc[t]) ]
    /\ pc' = [ pc EXCEPT ![t] = AfterReturn(t) ]
    /\ loc' = [ loc EXCEPT ![t] = IdleLoc ]
    /\ hist' = [ hist EXCEPT !.installed = @ + 1 ]
    /\ UNCHANGED << pending_command, thread, stop_event, next_tick, output,
                    input, last_status_word, now, got, call, bringup >>

(***************************************************************************)
(* EthercatLoop._run_forever, the body of a driver thread.                 *)
(***************************************************************************)

\* Line 115.
RfBegin(d) ==
    /\ pc[d] = "rf_begin"
    /\ next_tick' = [ next_tick EXCEPT ![d] = now ]
    /\ pc' = [ pc EXCEPT ![d] = "rf_test" ]
    /\ UNCHANGED << pending_command, latest_status, stats, thread, stop_event, loc,
                    output, input, last_status_word, now, got, call, bringup, hist >>

\* Variant of RfTest that enters the next cycle without looking at the stop
\* event.
RfTestUnconditional(d) ==
    /\ pc[d] = "rf_test"
    /\ hist.cycles < MaxCycles
    /\ pc' = [ pc EXCEPT ![d] = "ro_snapshot" ]
    /\ UNCHANGED << pending_command, latest_status, stats, thread, stop_event, loc,
                    next_tick, output, input, last_status_word, now, got, call, bringup,
                    hist >>

\* Lines 116-117: the loop test; the thread ends when the stop event is set.
RfTest(d) ==
    /\ pc[d] = "rf_test"
    /\ stop_event \/ hist.cycles < MaxCycles
    /\ pc' = [ pc EXCEPT ![d] = IF stop_event THEN "dead" ELSE "ro_snapshot" ]
    /\ UNCHANGED << pending_command, latest_status, stats, thread, stop_event, loc,
                    next_tick, output, input, last_status_word, now, got, call, bringup,
                    hist >>

\* Variant of RfTick that keeps the advanced tick reference after an overrun
\* instead of resetting it to the current time.
RfTickCatchUp(d) ==
    /\ pc[d] = "rf_tick"
    /\ LET tick == next_tick[d] + CycleTicks
       IN /\ next_tick' = [ next_tick EXCEPT ![d] = tick ]
          /\ pc' = [ pc EXCEPT ![d] = IF tick - now > 0 THEN "rf_sleep"
                                      ELSE "rf_test" ]
    /\ UNCHANGED << pending_command, latest_status, stats, thread, stop_event, loc,
                    output, input, last_status_word, now, got, call, bringup, hist >>

\* Lines 118-125: advance the tick reference; sleep, or reset it after an overrun.
RfTick(d) ==
    /\ pc[d] = "rf_tick"
    /\ LET tick == next_tick[d] + CycleTicks
       IN IF tick - now > 0
          THEN /\ next_tick' = [ next_tick EXCEPT ![d] = tick ]
               /\ pc' = [ pc EXCEPT ![d] = "rf_sleep" ]
          ELSE /\ next_tick' = [ next_tick EXCEPT ![d] = now ]
               /\ pc' = [ pc EXCEPT ![d] = "rf_test" ]
    /\ UNCHANGED << pending_command, latest_status, stats, thread, stop_event, loc,
                    output, input, last_status_word, now, got, call, bringup, hist >>

\* Line 122: time.sleep(sleep_ns / 1e9) returns when at least the requested
\* time has passed; the operating system chooses how late, among `lateness`.
RfWake(d, lateness) ==
    /\ pc[d] = "rf_sleep"
    /\ \E late \in lateness :
         now' = (IF next_tick[d] > now THEN next_tick[d] ELSE now) + late
    /\ pc' = [ pc EXCEPT ![d] = "rf_test" ]
    /\ UNCHANGED << pending_command, latest_status, stats, thread, stop_event, loc,
                    next_tick, output, input, last_status_word, got, call, bringup, hist >>

RunOnceStep(t, outcomes) ==
    \/ Snapshot(t)
    \/ EncodeSlave(t)
    \/ Send(t)
    \/ Receive(t, outcomes)
    \/ DecodeSlave(t)
    \/ Publish(t)

\* A punctual sleep, and one that may return a tick late.
Punctual == { 0 }
MayBeLate == { 0, 1 }

DriverStep(d) ==
    \/ RfBegin(d)
    \/ RfTest(d)
    \/ RfTick(d)
    \/ RfWake(d, Punctual)

(***************************************************************************)
(* Spec: the scripts' usage.  The main thread starts the loop (again after *)
(* the driver has ended); application threads submit commands and read     *)
(* the status while the driver runs cycles.                                *)
(***************************************************************************)

\* The loop runs on the runtime of a bring-up that has returned.
BroughtUp == [ pc |-> "returned" ]

Init ==
    /\ InitLoop
    /\ call = [ fn |-> "none" ]
    /\ bringup = BroughtUp

Next ==
    \/ \E a \in AppThreads, k \in DOMAIN Submissions : SetCommand(a, k)
    \/ \E a \in AppThreads : GetStatus(a)
    \/ StartCheck(MainThread)
    \/ StartClear(MainThread)
    \/ StartCreate(MainThread)
    \/ StartStart(MainThread)
    \/ \E d \in Drivers : DriverStep(d)
    \/ \E d \in Drivers : RunOnceStep(d, RecvOutcomes)

Spec == Init /\ [][Next]_vars

(***************************************************************************)
(* Properties of the cyclic loop, checked under Spec.                      *)
(***************************************************************************)

\* The steps of run_once between the snapshot and the return.
EncodedPcs == { "ro_send", "ro_recv", "ro_decode", "ro_publish" }

\* Slave number k of the configuration has been encoded in the cycle that
\* thread t is running.
Encoded(t, k) ==
    \/ pc[t] \in EncodedPcs
    \/ pc[t] = "ro_encode" /\ k < loc[t].i

AllZero(buffer) == \A j \in DOMAIN buffer : buffer[j] = 0

\* C3: the sequence number run_once assigns to a cycle's command is strictly
\* greater than the sequence number assigned in every earlier cycle, under
\* any interleaving of set_command calls and cycles.
C3_SeqStrictlyIncreases ==
    hist.cycles >= 2 => hist.last_seq > hist.prev_max

\* The SystemCommand whose set_command took the lock last before thread t
\* took its snapshot; the initial command when there was none.
LastSubmitted(t) ==
    IF loc[t].src = 0 THEN DefaultSystemCommand ELSE Submissions[loc[t].src]

\* The buffer that encoding the entries `by_slave` gives slave `name`.
EncodingOf(name, by_slave) ==
    IF name \notin DOMAIN by_slave THEN ZeroBytes(rx_pdo_size(name))
    ELSE IF AdapterKind(name) = "ds402"
         THEN pack_command(by_slave[name], PdoScalingDefaults, last_status_word[name])
         ELSE AuxPayload(by_slave[name], rx_pdo_size(name))

\* C4: a cycle that starts after a number of set_command calls have returned
\* encodes, for every slave, the per-slave commands of the one SystemCommand
\* whose set_command took the lock last: the snapshot holds exactly the
\* entries of that submission, and the output buffers the cycle sends are
\* the encodings of those entries, never of entries of two submissions or
\* of an earlier one.
C4_LastSubmissionWins ==
    \A t \in Drivers :
        /\ pc[t] \in EncodedPcs \cup { "ro_encode" }
               => loc[t].command.by_slave = LastSubmitted(t).by_slave
        /\ pc[t] \in { "ro_send", "ro_recv" }
               => \A n \in SlaveSet :
                      output[n] = EncodingOf(n, LastSubmitted(t).by_slave)

\* C4 witness: two or more submissions raced before a snapshot, and the cycle
\* is about to send the encoding of the second submission of the list.
C4_Witness ==
    \E t \in Drivers :
        /\ pc[t] = "ro_send"
        /\ loc[t].raced = 2
        /\ loc[t].src = 2
        /\ output["aux"] = AuxPayload(161, AuxRxSize)
        /\ output["drive1"] = pack_command(CmdEnable, PdoScalingDefaults,
                                           last_status_word["drive1"])

\* C6: every SystemStatus get_status returned is the initial empty status
\* or the complete status of one cycle: it has an entry for every configured
\* slave and the DS402 entries carry the seq and stamp of the SystemStatus;
\* and no step of a cycle changes a status a reader holds.
C6_StatusCopyOut ==
    /\ [](\/ got = DefaultSystemStatus
          \/ /\ DOMAIN got.by_slave = SlaveSet
             /\ \A n \in SlaveSet :
                    AdapterKind(n) = "ds402"
                        => /\ got.by_slave[n].seq = got.seq
                           /\ got.by_slave[n].stamp_ns = got.stamp_ns)
    /\ [][got' # got => (pc' = pc /\ loc' = loc
                           /\ latest_status' = latest_status)]_vars

\* C6 witness: a reader holds the status of an earlier cycle while a later
\* cycle has decoded every slave and is about to publish.
C6_Witness ==
    /\ got # DefaultSystemStatus
    /\ \E t \in Drivers :
           /\ pc[t] = "ro_publish"
           /\ loc[t].end_ns # got.stamp_ns

\* C7: in every cycle, each configured slave whose name is absent from the
\* snapshot's by_slave map is written an output buffer of exactly the
\* adapter's rx_pdo_size that holds only zero bytes.
C7_AbsentSlaveZeroFilled ==
    \A t \in Drivers, k \in DOMAIN SlaveNames :
        (Encoded(t, k) /\ SlaveNames[k] \notin DOMAIN loc[t].command.by_slave)
            => /\ Len(output[SlaveNames[k]]) = rx_pdo_size(SlaveNames[k])
               /\ AllZero(output[SlaveNames[k]])

\* C7 witness: the second cycle runs on a submission without an entry for
\* the drive; the drive's buffer is zero-filled, the other slave's is not.
C7_Witness ==
    \E t \in Drivers :
        /\ pc[t] = "ro_send"
        /\ hist.cycles = 2
        /\ "drive1" \notin DOMAIN loc[t].command.by_slave
        /\ AllZero(output["drive1"])
        /\ ~AllZero(output["aux"])

\* C8: every output buffer has exactly the adapter's rx_pdo_size; when
\* pack_rx_pdo returned a payload of another length, run_once raised, the
\* payload was not written, and the cycle sent and received nothing.
C8_OutputSizeEnforced ==
    /\ \A n \in SlaveSet : Len(output[n]) = rx_pdo_size(n)
    /\ \A t \in Drivers :
           /\ \A k \in DOMAIN loc[t].packed :
                  loc[t].packed[k] # rx_pdo_size(SlaveNames[k])
                      => loc[t].error = "encode"
           /\ loc[t].error = "encode"
                  => /\ loc[t].sends = 0
                     /\ loc[t].recvs = 0
                     /\ pc[t] \notin EncodedPcs \cup { "ro_encode" }

\* C8 witness: an adapter returned a payload one byte short and the driver
\* thread ended on the error.
C8_Witness ==
    \E t \in Drivers :
        /\ loc[t].error = "encode"
        /\ loc[t].packed[Len(loc[t].packed)] = AuxRxSize - 1
        /\ pc[t] = "dead"

(***************************************************************************)
(* SpecCodec: the pure functions of the DS402 protocol layer, each applied *)
(* once to an input drawn by the initial state.                            *)
(***************************************************************************)

\* The values of ModeOfOperation.
ModesOfOperation == { 0, 1, 2, 4, 8, 9, 10 }

\* The status words pack_command is applied to: every value of the low
\* byte, which holds the bits decode_cia402_state looks at, and words with
\* higher bits set.
PackStatusWords == 0..255 \cup { 567, 4660, 65535 }

\* The status words _decode_statusword_bits is applied to: every value of
\* bits 0 to 10, which hold the flags, and every value of bits 11 to 15 over
\* three values of the lower bits.
FlagStatusWords ==
    0..2047 \cup { 2048 * high + low : high \in 1..31, low \in { 0, 1559, 2047 } }

\* The scaling of a DS402 adapter as _build_adapter reads it from the
\* topology entry: nothing configured, every factor 1, other factors.
PdoScalings ==
    { PdoScalingDefaults,
      [ torque_lsb_per_nm |-> 1, velocity_lsb_per_rad_s |-> 1,
        position_lsb_per_rad |-> 1 ],
      [ torque_lsb_per_nm |-> 10, velocity_lsb_per_rad_s |-> 2,
        position_lsb_per_rad |-> 3 ] }

\* The two modules with a decode_cia402_state: the baseline codec and the
\* codec of the DS402 adapter.
Codecs == { "ethercat_core.pdo", "ethercat_core.slaves.ds402.pdo" }

CodecCalls ==
    { [ fn |-> "decode_cia402_state", status_word |-> sw, done |-> FALSE ]
        : sw \in 0..(WordLimit - 1) }
    \cup
    { [ fn |-> "_decode_statusword_bits", status_word |-> sw, done |-> FALSE ]
        : sw \in FlagStatusWords }
    \cup
    { [ fn |-> "pack_command", status_word |-> sw, mode |-> mode,
        enable_drive |-> en, clear_fault |-> cf,
        scaling |-> PdoScalingDefaults,
        target_position |-> 0, target_velocity |-> 0, done |-> FALSE ]
        : sw \in PackStatusWords, mode \in ModesOfOperation,
          en \in BOOLEAN, cf \in BOOLEAN }
    \cup
    { [ fn |-> "pack_command", status_word |-> 0, mode |-> 8,
        enable_drive |-> TRUE, clear_fault |-> FALSE,
        scaling |-> scaling,
        target_position |-> position, target_velocity |-> velocity,
        done |-> FALSE ]
        : scaling \in PdoScalings, position \in { 0, 1, -2 },
          velocity \in { 0, 3 } }
    \cup
    { [ fn |-> "_controlword_from_command", state |-> st,
        enable_drive |-> en, clear_fault |-> cf, done |-> FALSE ]
        : st \in DriveCiA402States, en \in BOOLEAN, cf \in BOOLEAN }
    \cup
    { [ fn |-> "decode_every_word", codec |-> codec, done |-> FALSE ]
        : codec \in Codecs }

InitCodec ==
    /\ InitLoop
    /\ call \in CodecCalls
    /\ bringup = BroughtUp

ApplyDecode ==
    /\ call.fn = "decode_cia402_state"
    /\ ~call.done
    /\ call' = [ fn |-> call.fn, status_word |-> call.status_word, done |-> TRUE,
                 result |-> decode_cia402_state(call.status_word) ]
    /\ UNCHANGED loopVars
    /\ UNCHANGED last_status_word

ApplyControlword ==
    /\ call.fn = "_controlword_from_command"
    /\ ~call.done
    /\ call' = [ fn |-> call.fn, state |-> call.state,
                 enable_drive |-> call.enable_drive,
                 clear_fault |-> call.clear_fault, done |-> TRUE,
                 result |-> _controlword_from_command(
                     [ DefaultCommand EXCEPT !.enable_drive = call.enable_drive,
                                             !.clear_fault = call.clear_fault ],
                     call.state) ]
    /\ UNCHANGED loopVars
    /\ UNCHANGED last_status_word

ApplyDecodeBits ==
    /\ call.fn = "_decode_statusword_bits"
    /\ ~call.done
    /\ call' = [ fn |-> call.fn, status_word |-> call.status_word, done |-> TRUE,
                 result |-> _decode_statusword_bits(call.status_word) ]
    /\ UNCHANGED loopVars
    /\ UNCHANGED last_status_word

ApplyPack ==
    /\ call.fn = "pack_command"
    /\ ~call.done
    /\ call' = [ fn |-> call.fn, status_word |-> call.status_word,
                 mode |-> call.mode, enable_drive |-> call.enable_drive,
                 clear_fault |-> call.clear_fault,
                 scaling |-> call.scaling,
                 target_position |-> call.target_position,
                 target_velocity |-> call.target_velocity, done |-> TRUE,
                 result |-> pack_command(
                     [ DefaultCommand EXCEPT
                         !.mode_of_operation = call.mode,
                         !.enable_drive = call.enable_drive,
                         !.clear_fault = call.clear_fault,
                         !.target_position_rad = call.target_position,
                         !.target_velocity_rad_s = call.target_velocity ],
                     call.scaling, call.status_word) ]
    /\ UNCHANGED loopVars
    /\ UNCHANGED last_status_word

\* The decoder of one codec applied to every 16-bit status word: the set
\* of the states it returned.
ApplyDecodeEvery ==
    /\ call.fn = "decode_every_word"
    /\ ~call.done
    /\ call' = [ fn |-> call.fn, codec |-> call.codec, done |-> TRUE,
                 result |-> { DecoderOf(call.codec, sw) : sw \in 0..(WordLimit - 1) } ]
    /\ UNCHANGED loopVars
    /\ UNCHANGED last_status_word

NextCodec ==
    \/ ApplyDecode
    \/ ApplyControlword
    \/ ApplyDecodeBits
    \/ ApplyPack
    \/ ApplyDecodeEvery

SpecCodec == InitCodec /\ [][NextCodec]_vars

(***************************************************************************)
(* Properties of the protocol layer, checked under SpecCodec.              *)
(***************************************************************************)

\* The controlword the transition table of the specification gives for a
\* state and the two flags; TRUE where the table has no row.
TableAllows(state, enable_drive, clear_fault, controlword) ==
    IF state = "FAULT" /\ clear_fault THEN controlword = 128
    ELSE IF ~enable_drive THEN
        IF state \in { "SWITCH_ON_DISABLED", "READY_TO_SWITCH_ON", "SWITCHED_ON",
                       "OPERATION_ENABLED", "QUICK_STOP_ACTIVE" }
        THEN controlword = 6
        ELSE controlword = 0
    ELSE CASE state = "SWITCH_ON_DISABLED" -> controlword = 6
           [] state = "READY_TO_SWITCH_ON" -> controlword = 7
           [] state \in { "SWITCHED_ON", "OPERATION_ENABLED",
                          "QUICK_STOP_ACTIVE" } -> controlword = 15
           [] state = "FAULT" -> controlword = 0
           [] OTHER -> controlword \in 0..(WordLimit - 1)

\* C1: for every logical state and every value of enable_drive and
\* clear_fault, _controlword_from_command returns the controlword of the
\* transition table: 0x0080 in FAULT with clear_fault; with enable_drive
\* false 0x0006 in the five switched states and 0x0000 elsewhere; with
\* enable_drive true 0x0006, 0x0007, 0x000F along the enable path and 0x0000
\* in FAULT without clear_fault.
C1_ControlwordMatchesTable ==
    (call.fn = "_controlword_from_command" /\ call.done)
        => TableAllows(call.state, call.enable_drive, call.clear_fault,
                       call.result)

\* C1 witness: the fault-reset row with enable_drive set has been computed.
C1_Witness ==
    /\ call.fn = "_controlword_from_command"
    /\ call.done
    /\ call.state = "FAULT"
    /\ call.clear_fault
    /\ call.enable_drive
    /\ call.result = 128

\* C2: decode_cia402_state maps each of the 65,536 status words to one of
\* the 8 logical states; no status word satisfies two of the eight
\* comparisons, so the result is the state of the one comparison satisfied;
\* a status word satisfying none maps to NOT_READY_TO_SWITCH_ON; 0x0237 maps
\* to OPERATION_ENABLED and 0x0008 to FAULT.
C2_DecodeTotalExclusive ==
    (call.fn = "decode_cia402_state" /\ call.done) =>
        LET matching == MatchingPatterns(call.status_word)
        IN /\ call.result \in DriveCiA402States
           /\ Cardinality(matching) <= 1
           /\ \A i \in matching : call.result = StatePatterns[i].state
           /\ matching = {} => call.result = "NOT_READY_TO_SWITCH_ON"
           /\ call.status_word = 567 => call.result = "OPERATION_ENABLED"
           /\ call.status_word = 8 => call.result = "FAULT"

\* C2 witness: status word 0x0237 has been decoded to OPERATION_ENABLED.
C2_Witness ==
    /\ call.fn = "decode_cia402_state"
    /\ call.done
    /\ call.status_word = 567
    /\ call.result = "OPERATION_ENABLED"

(***************************************************************************)
(* SpecAdapter: one Ds402SlaveAdapter ("drive1") driven through arbitrary  *)
(* sequences of unpack_tx_pdo and pack_rx_pdo calls.                       *)
(***************************************************************************)

AdapterStatusWords == { 567, 8, 64, 0, 33, 35, 7 }

\* <<length, status word>> of the buffers handed to unpack_tx_pdo: every
\* length with one status word, both layouts' sizes with every status word.
AdapterFrameShapes ==
    { << len, 567 >> : len \in 0..MaxFrameLen }
    \cup { << len, sw >> : len \in { LEGACY_TX_PDO_SIZE, TX_PDO_SIZE },
                           sw \in AdapterStatusWords }

CmdBoth == [ CmdEnable EXCEPT !.clear_fault = TRUE ]

AdapterCommands == { DefaultCommand, CmdReset, CmdEnable, CmdBoth }

\* The calls of unpack_tx_pdo that have returned a status so far: whether
\* there was one, and the status word of the buffer of the last one.
NothingDecoded == [ any |-> FALSE, word |-> 0 ]
DecodedSoFar == IF call.fn = "none" THEN NothingDecoded ELSE call.decoded

\* adapter.unpack_tx_pdo(pdo) with the default cycle metadata.
AdapterUnpack(pdo) ==
    /\ call.fn \in { "none", "unpack_tx_pdo", "pack_rx_pdo" }
    /\ LET r == unpack_tx_pdo("drive1", pdo, last_status_word["drive1"], 0, 0, 0, 0)
       IN /\ call' = [ fn |-> "unpack_tx_pdo", pdo |-> pdo,
                       lsw_before |-> last_status_word["drive1"],
                       ok |-> r.ok, status |-> r.status,
                       decoded |-> IF r.ok
                                   THEN [ any |-> TRUE, word |-> UnpackU16(pdo, 0) ]
                                   ELSE DecodedSoFar ]
          /\ last_status_word' =
                 [ last_status_word EXCEPT !["drive1"] = r.last_status_word ]
    /\ UNCHANGED loopVars

\* adapter.pack_rx_pdo(command).
AdapterPack(command) ==
    /\ call.fn \in { "none", "unpack_tx_pdo", "pack_rx_pdo" }
    /\ \E payload \in pack_rx_pdo("drive1", command, last_status_word["drive1"]) :
         call' = [ fn |-> "pack_rx_pdo", command |-> command,
                   lsw_before |-> last_status_word["drive1"],
                   payload |-> payload, decoded |-> DecodedSoFar ]
    /\ UNCHANGED loopVars
    /\ UNCHANGED last_status_word

NextAdapter ==
    \/ \E shape \in AdapterFrameShapes :
         AdapterUnpack(TxFrame(shape[1], shape[2]))
    \/ \E command \in AdapterCommands : AdapterPack(command)

SpecAdapter == Init /\ [][NextAdapter]_vars

(***************************************************************************)
(* SpecLife: the lifecycle API under arbitrary use.  Every application     *)
(* thread may call start(), stop() and run_once() at any time; no command  *)
(* is submitted and the bus is healthy.                                    *)
(***************************************************************************)

NextLife ==
    \/ \E a \in AppThreads : StartCheck(a)
    \/ \E a \in AppThreads : StartClear(a)
    \/ \E a \in AppThreads : StartCreate(a)
    \/ \E a \in AppThreads : StartStart(a)
    \/ \E a \in AppThreads : StopSet(a)
    \/ \E a \in AppThreads : StopJoin(a)
    \/ \E a \in AppThreads : RunOnceCall(a)
    \/ \E d \in Drivers : DriverStep(d)
    \/ \E t \in Threads : RunOnceStep(t, NominalOutcomes)

SpecLife == Init /\ [][NextLife]_vars

(***************************************************************************)
(* Properties of the DS402 adapter, checked under SpecAdapter.             *)
(***************************************************************************)

\* The DriveStatus decoded from the first `size` bytes of the buffer.
StatusOfPrefix(pdo, size) == unpack_status(SubSeq(pdo, 1, size), 0, 0, 0, 0).status

\* C9 as stated: every input buffer the decode accepts has exactly the
\* adapter's declared tx_pdo_size; any other length is rejected.
C9_AcceptsOnlyDeclaredSize ==
    (call.fn = "unpack_tx_pdo" /\ call.ok)
        => Len(call.pdo) = tx_pdo_size("drive1")

\* C9 amended: the decode rejects exactly the buffers shorter than the
\* legacy layout (16 bytes).  A buffer of at least tx_pdo_size bytes is
\* decoded with the declared layout from its first tx_pdo_size bytes, the
\* rest is ignored; a buffer of 16 bytes up to tx_pdo_size - 1 bytes is
\* decoded with the legacy layout from its first 16 bytes.
C9_AcceptsFromLegacySize ==
    call.fn = "unpack_tx_pdo" =>
        /\ call.ok <=> Len(call.pdo) >= LEGACY_TX_PDO_SIZE
        /\ (call.ok /\ Len(call.pdo) >= tx_pdo_size("drive1"))
               => /\ call.status = StatusOfPrefix(call.pdo, tx_pdo_size("drive1"))
                  /\ call.status.error_code = UnpackU16(call.pdo, 17)
                  /\ call.status.measured_position_rad = UnpackI32(call.pdo, 3)
        /\ (call.ok /\ Len(call.pdo) < tx_pdo_size("drive1"))
               => /\ call.status = StatusOfPrefix(call.pdo, LEGACY_TX_PDO_SIZE)
                  /\ call.status.error_code = UnpackU16(call.pdo, 3)
                  /\ call.status.measured_position_rad = UnpackI32(call.pdo, 11)
                  /\ call.status.al_state_code = UnpackU8(call.pdo, 15)

\* C9 witness: a buffer of the legacy size, shorter than tx_pdo_size, has
\* been accepted and decoded with the legacy layout.
C9_Witness ==
    /\ call.fn = "unpack_tx_pdo"
    /\ call.ok
    /\ Len(call.pdo) = LEGACY_TX_PDO_SIZE
    /\ Len(call.pdo) < tx_pdo_size("drive1")
    /\ call.status.error_code = UnpackU16(call.pdo, 3)

\* C10: decoding a buffer shorter than the minimum decode size raises,
\* gives no status and leaves the remembered status word as it was; a
\* buffer of at least that size is decoded without a size error.
C10_ShortBufferRejected ==
    call.fn = "unpack_tx_pdo" =>
        /\ Len(call.pdo) < LEGACY_TX_PDO_SIZE
               => /\ ~call.ok
                  /\ DOMAIN call.status = {}
                  /\ last_status_word["drive1"] = call.lsw_before
        /\ Len(call.pdo) >= LEGACY_TX_PDO_SIZE => call.ok

\* C10 witness: a buffer one byte short, carrying status word 0x0237, was
\* rejected while the adapter remembered 0x0008, and still remembers it.
C10_Witness ==
    /\ call.fn = "unpack_tx_pdo"
    /\ Len(call.pdo) = LEGACY_TX_PDO_SIZE - 1
    /\ UnpackU16(call.pdo, 0) = 567
    /\ ~call.ok
    /\ call.lsw_before = 8
    /\ last_status_word["drive1"] = 8

(***************************************************************************)
(* Properties of the lifecycle API, checked under SpecLife.                *)
(***************************************************************************)

\* The steps of run_once that write the slaves' output buffers, exchange
\* process data and read the slaves' input buffers.
TransportPcs == { "ro_encode", "ro_send", "ro_recv", "ro_decode" }

\* C5: at no point are two threads in the transport-touching part of a
\* cycle, and at most one driver thread is alive, whatever start(), stop()
\* and run_once() calls the application threads make.
C5_SingleTransportUser ==
    /\ Cardinality({ t \in Threads : pc[t] \in TransportPcs }) <= 1
    /\ Cardinality({ d \in Drivers : IsAlive(d) }) <= 1


(***************************************************************************)
(* Properties of one cycle and of the driver's schedule, checked under     *)
(* Spec.                                                                   *)
(***************************************************************************)

\* C11: a run_once call sends the process data exactly once and receives
\* exactly once, in that order; every configured slave's output buffer is
\* written before the send, and no input buffer is decoded before the
\* receive has returned.
C11_OneExchangeInOrder ==
    \A t \in Drivers :
        /\ pc[t] \in { "ro_snapshot", "ro_encode" }
               => /\ loc[t].sends = 0
                  /\ loc[t].recvs = 0
                  /\ loc[t].status_by_slave = EmptyMap
        /\ pc[t] = "ro_send"
               => /\ loc[t].sends = 0
                  /\ loc[t].recvs = 0
                  /\ Len(loc[t].packed) = Len(SlaveNames)
                  /\ loc[t].status_by_slave = EmptyMap
        /\ pc[t] = "ro_recv"
               => /\ loc[t].sends = 1
                  /\ loc[t].recvs = 0
                  /\ loc[t].status_by_slave = EmptyMap
        /\ pc[t] \in { "ro_decode", "ro_publish" }
               => /\ loc[t].sends = 1
                  /\ loc[t].recvs = 1
        /\ pc[t] = "ro_publish" => DOMAIN loc[t].status_by_slave = SlaveSet
        /\ loc[t].sends <= 1
        /\ loc[t].recvs <= loc[t].sends

\* C11 witness: a cycle is about to publish after one send, one receive and
\* the decoding of every slave.
C11_Witness ==
    \E t \in Drivers :
        /\ pc[t] = "ro_publish"
        /\ loc[t].sends = 1
        /\ loc[t].recvs = 1
        /\ Len(loc[t].packed) = Len(SlaveNames)
        /\ DOMAIN loc[t].status_by_slave = SlaveSet


\* The adapter of slave `name` decodes `buffer` without a size error.
Decodable(name, buffer) ==
    AdapterKind(name) = "ds402" => Len(buffer) >= LEGACY_TX_PDO_SIZE

\* C12: whatever working counter the receive step returns, a timeout's
\* zero included, run_once does not raise on it: it goes on to decode every
\* slave whose buffer is decodable, publishes the cycle's status, raises
\* cycle_count by one and stores the returned working counter in last_wkc;
\* the driver then goes on to its schedule and starts the next cycle with a
\* new snapshot, without repeating the exchange.
C12_DegradedCyclePublishes ==
    [][ \A t \in Drivers :
          /\ (pc[t] = "ro_recv" /\ pc'[t] # "ro_recv")
                 => /\ pc'[t] = "ro_decode"
                    /\ loc'[t].error = ""
                    /\ loc'[t].sends = 1
          /\ (pc[t] = "ro_decode" /\ loc'[t] # loc[t]
                 /\ Decodable(SlaveNames[loc[t].i], input[SlaveNames[loc[t].i]]))
                 => /\ pc'[t] \in { "ro_decode", "ro_publish" }
                    /\ loc'[t].error = ""
                    /\ SlaveNames[loc[t].i] \in DOMAIN loc'[t].status_by_slave
          /\ (pc[t] = "ro_publish" /\ pc'[t] # "ro_publish")
                 => /\ stats'.cycle_count = stats.cycle_count + 1
                    /\ stats'.last_wkc = loc[t].wkc
                    /\ latest_status'.by_slave = loc[t].status_by_slave
                    /\ DOMAIN latest_status'.by_slave = SlaveSet
                    /\ pc'[t] = "rf_tick"
          /\ (pc[t] = "rf_test" /\ pc'[t] # "rf_test" /\ ~stop_event)
                 => pc'[t] = "ro_snapshot"
      ]_vars

\* C12 witness: the first cycle timed out (working counter 0), was
\* published and counted, and the driver is in its second cycle.
C12_Witness ==
    /\ stats.cycle_count = 1
    /\ stats.last_wkc = 0
    /\ DOMAIN latest_status.by_slave = SlaveSet
    /\ hist.cycles = 2
    /\ \E t \in Drivers : pc[t] = "ro_send" /\ loc[t].sends = 0


(***************************************************************************)
(* SpecSched: one application thread drives the lifecycle (start, stop,    *)
(* start again) and reads the status; no command is submitted.  The bus    *)
(* answers in time or times out after the bounded wait, the sleep may      *)
(* return late, and a stop() may return on its timeout.  The operating     *)
(* system keeps scheduling a driver thread that can take a step: every     *)
(* step of _run_forever and run_once is bounded (the receive by its        *)
(* timeout, the sleep by its duration).                                    *)
(***************************************************************************)

TimingOutcomes ==
    { [ wkc |-> 2, ticks |-> 1, frame |-> TxFrame(TX_PDO_SIZE, 567) ],
      [ wkc |-> 0, ticks |-> 3, frame |-> TxFrame(LEGACY_TX_PDO_SIZE, 8) ] }

DriverRun(d) ==
    \/ RfBegin(d)
    \/ RfTest(d)
    \/ RfTick(d)
    \/ RfWake(d, MayBeLate)
    \/ RunOnceStep(d, TimingOutcomes)

NextSched ==
    \/ StartCheck(MainThread)
    \/ StartClear(MainThread)
    \/ StartCreate(MainThread)
    \/ StartStart(MainThread)
    \/ StopSet(MainThread)
    \/ StopJoin(MainThread)
    \/ GetStatus(MainThread)
    \/ \E d \in Drivers : DriverRun(d)

SpecSched ==
    Init /\ [][NextSched]_vars /\ \A d \in Drivers : WF_vars(DriverRun(d))

(***************************************************************************)
(* Properties of the driver's schedule and of the lifecycle, checked under *)
(* SpecSched.                                                              *)
(***************************************************************************)

\* C13: when a cycle ends with next_tick + P - now <= 0, the tick reference
\* becomes `now` and the driver goes on without sleeping; so when the driver
\* tests the flag for the next cycle the reference lags the clock by no more
\* than the lateness of the last sleep, however long the overrun was, and no
\* backlog of cycles builds up.  A cycle that started on its tick reference
\* (as the first cycle after an overrun does) and took less than the period
\* P is followed by a sleep up to a reference in the future.
C13_NoCatchUpAfterOverrun ==
    /\ [](\A d \in Drivers :
            pc[d] = "rf_test" => \E late \in MayBeLate : next_tick[d] + late = now)
    /\ [][ \A d \in Drivers :
              (pc[d] = "rf_tick" /\ pc'[d] # "rf_tick")
                 => /\ next_tick[d] + CycleTicks - now <= 0
                           => /\ next_tick'[d] = now
                              /\ pc'[d] = "rf_test"
                    /\ ( /\ next_tick[d] = now - stats.last_cycle_time_ns
                         /\ stats.last_cycle_time_ns < CycleTicks )
                           => /\ pc'[d] = "rf_sleep"
                              /\ next_tick'[d] > now
          ]_vars

\* C13 witness: a reader holds the status of a cycle that overran the
\* period; the cycle after it took less than the period and the driver
\* sleeps after it.
C13_Witness ==
    /\ DOMAIN got.by_slave = SlaveSet
    /\ got.by_slave["drive1"].cycle_time_ns > CycleTicks
    /\ stats.cycle_count = 2
    /\ stats.last_cycle_time_ns < CycleTicks
    /\ \E d \in Drivers : pc[d] = "rf_sleep" /\ next_tick[d] > now


\* The positions of a thread inside run_once.
CyclePcs ==
    { "ro_snapshot", "ro_encode", "ro_send", "ro_recv", "ro_decode", "ro_publish" }

\* C14: stop() only sets the flag.  A cycle in progress in the driver is
\* never cut short: from every position inside run_once the driver moves
\* only to a position inside run_once or, from the publication, back to
\* _run_forever having installed the cycle's status and counted the cycle,
\* whether or not the flag is set.  A driver that tests the flag and finds
\* it set ends without starting a cycle and never runs again; and once the
\* flag is set a live driver eventually ends.
C14_StopIsCooperative ==
    /\ [][ \A d \in Drivers :
              /\ (pc[d] \in CyclePcs /\ pc'[d] # pc[d])
                    => IF pc[d] = "ro_publish"
                       THEN /\ pc'[d] = "rf_tick"
                            /\ latest_status' = CycleStatus(loc[d])
                            /\ stats'.cycle_count = stats.cycle_count + 1
                       ELSE pc'[d] \in CyclePcs
              /\ (pc[d] = "rf_test" /\ stop_event /\ pc'[d] # pc[d])
                    => pc'[d] = "dead"
              /\ pc[d] = "dead" => pc'[d] = "dead"
          ]_vars
    /\ \A d \in Drivers : (stop_event /\ IsAlive(d)) ~> (pc[d] = "dead")

\* C14 witness: stop() has set the flag and returned on its timeout while
\* the driver was inside a cycle; that cycle has reached its publication.
C14_Witness ==
    /\ stop_event
    /\ hist.returned = "stop"
    /\ \E d \in Drivers : pc[d] = "ro_publish" /\ loc[d].recvs = 1


\* C15: whenever start() has returned and no stop() has been called since,
\* the loop is Running: a driver thread is alive and the stop event is
\* clear, so the driver keeps entering cycles.  (Violated: a stop() whose
\* join timed out leaves a live driver with the event set; the next start()
\* returns at once because the thread is alive, and that driver then ends.)
C15_StartPutsLoopInRunning ==
    (pc[MainThread] = "idle" /\ hist.returned = "start")
        => /\ thread # NoThread
           /\ IsAlive(thread)
           /\ ~stop_event


\* C16: the cycle count always equals the number of statuses installed as
\* the latest status.  The latest status and the statistics change only
\* together, in the one step that ends a run_once: that step installs the
\* cycle's status, raises cycle_count by exactly 1 and stores the cycle's
\* working counter, cycle time and deviation; every run_once that completes
\* takes it.  No other step, start() and stop() included, changes either,
\* so cycle_count never decreases.
C16_StatusAndStatsTogether ==
    /\ [](stats.cycle_count = hist.installed)
    /\ [][ /\ (stats' # stats \/ latest_status' # latest_status)
                => \E t \in Threads :
                     /\ pc[t] = "ro_publish"
                     /\ pc'[t] = AfterReturn(t)
                     /\ latest_status' = CycleStatus(loc[t])
                     /\ stats' = [ cycle_count |-> stats.cycle_count + 1,
                                   last_wkc |-> loc[t].wkc,
                                   last_cycle_time_ns |-> CycleTime(loc[t]),
                                   last_dc_error_ns |-> DcError(loc[t]) ]
           /\ \A t \in Threads :
                (pc[t] = "ro_publish" /\ pc'[t] # "ro_publish")
                    => stats'.cycle_count = stats.cycle_count + 1
           /\ stats'.cycle_count >= stats.cycle_count
          ]_vars

\* C16 witness: the first driver has run a cycle and ended after a stop();
\* the driver of the following start() has published the second cycle.
C16_Witness ==
    /\ stats.cycle_count = 2
    /\ hist.installed = 2
    /\ latest_status.stamp_ns = now
    /\ hist.returned = "start"
    /\ pc[<< "drv", 1 >>] = "dead"
    /\ pc[<< "drv", 2 >>] = "rf_tick"


(***************************************************************************)
(* EthercatMaster (master.py): bring-up of the bus.                        *)
(***************************************************************************)

\* AL states as the transport library names them (values of EthercatAlStates).
INIT_STATE   == 1
PREOP_STATE  == 2
SAFEOP_STATE == 4
OP_STATE     == 8
ERROR_FLAG   == 16

\* range(5) of the priming rounds, range(50) of the rounds after the OP
\* request, range(5) of the SDO read and of the SDO write attempts.
PrimeRounds      == 5
OpRounds         == 50
SdoReadAttempts  == 5
SdoWriteAttempts == 5

\* Ds402SlaveAdapter._startup_read_specs, in the dict's (insertion) order.
Ds402StartupReadSpecs ==
    << [ name |-> "torque_loop_max_output", index |-> 9511, subindex |-> 0, data_type |-> "f32" ],
       [ name |-> "torque_loop_min_output", index |-> 9512, subindex |-> 0, data_type |-> "f32" ],
       [ name |-> "velocity_loop_kp", index |-> 9482, subindex |-> 0, data_type |-> "f32" ],
       [ name |-> "velocity_loop_ki", index |-> 9483, subindex |-> 0, data_type |-> "f32" ],
       [ name |-> "velocity_loop_kd", index |-> 9484, subindex |-> 0, data_type |-> "f32" ],
       [ name |-> "position_loop_kp", index |-> 9489, subindex |-> 0, data_type |-> "f32" ],
       [ name |-> "position_loop_ki", index |-> 9490, subindex |-> 0, data_type |-> "f32" ],
       [ name |-> "position_loop_kd", index |-> 9491, subindex |-> 0, data_type |-> "f32" ],
       [ name |-> "motor_kt", index |-> 9275, subindex |-> 0, data_type |-> "f32" ] >>

\* adapter.startup_read_specs() of the adapter _build_adapter makes for a
\* slave of kind "ds402", the only kind it supports.
startup_read_specs(kind) ==
    IF kind = "ds402" THEN Ds402StartupReadSpecs ELSE << >>

\* expected_sizes of _decode_sdo_value; 0 for a type without a minimum size.
ExpectedSize(dtype) ==
    IF dtype \in { "u8", "s8" } THEN 1
    ELSE IF dtype \in { "u16", "s16" } THEN 2
    ELSE IF dtype \in { "u32", "s32", "f32" } THEN 4
    ELSE 0

\* int.from_bytes(data[:n], "little", signed=...)
FromBytes(data, n, signed) ==
    LET RECURSIVE U(_)
        U(i) == IF i > n \/ i > Len(data) THEN 0
                ELSE data[i] + 256 * U(i + 1)
        u == U(1)
        m == IF Len(data) < n THEN Len(data) ELSE n
    IN IF signed /\ m > 0 /\ u >= 2 ^ (8 * m - 1) THEN u - 2 ^ (8 * m) ELSE u


\* _decode_sdo_value(raw, spec).  raw is what sdo_read returned: a scalar
\* (kind "int"), a byte string (kind "bytes") or anything else.  A u32 is
\* represented exactly while it is below 2^31.  The decoded value is carried
\* as a tuple: the bytes of a float or of a byte string, or the one integer.
_decode_sdo_value(raw, spec) ==
    IF raw.kind = "int" THEN [ ok |-> TRUE, value |-> << raw.value >> ]
    ELSE IF raw.kind # "bytes" THEN [ ok |-> FALSE, value |-> << >> ]
    ELSE IF Len(raw.data) < ExpectedSize(spec.data_type)
         THEN [ ok |-> FALSE, value |-> << >> ]
    ELSE IF spec.data_type = "bytes" THEN [ ok |-> TRUE, value |-> raw.data ]
    ELSE IF spec.data_type = "u8"
         THEN [ ok |-> TRUE, value |-> << FromBytes(raw.data, 1, FALSE) >> ]
    ELSE IF spec.data_type = "s8"
         THEN [ ok |-> TRUE, value |-> << FromBytes(raw.data, 1, TRUE) >> ]
    ELSE IF spec.data_type = "u16"
         THEN [ ok |-> TRUE, value |-> << FromBytes(raw.data, 2, FALSE) >> ]
    ELSE IF spec.data_type = "s16"
         THEN [ ok |-> TRUE, value |-> << FromBytes(raw.data, 2, TRUE) >> ]
    ELSE IF spec.data_type = "u32"
         THEN [ ok |-> TRUE, value |-> << FromBytes(raw.data, 4, FALSE) >> ]
    ELSE IF spec.data_type = "s32"
         THEN [ ok |-> TRUE, value |-> << UnpackI32(raw.data, 0) >> ]
    ELSE IF spec.data_type = "f32"
         THEN [ ok |-> TRUE, value |-> UnpackF32(raw.data, 0) ]
    ELSE [ ok |-> FALSE, value |-> << >> ]

\* What slave.sdo_read can do: raise, or return a payload.  The drive holds
\* the same four bytes for every object; it answers with exactly them, with
\* trailing bytes after them, or with a payload cut short.
SdoReadOutcomes ==
    { [ raised |-> TRUE,  kind |-> "none",  data |-> << >> ],
      [ raised |-> FALSE, kind |-> "bytes", data |-> << 0, 0, 128, 63 >> ],
      [ raised |-> FALSE, kind |-> "bytes", data |-> << 0, 0, 128, 63, 7, 7 >> ],
      [ raised |-> FALSE, kind |-> "bytes", data |-> << 0, 0 >> ] }

\* Variant of SdoAttempt that takes whatever payload sdo_read returned as
\* the value, without decoding it.
SdoAttemptUndecoded(outcome, spec) ==
    IF outcome.raised THEN [ ok |-> FALSE, value |-> << >> ]
    ELSE [ ok |-> TRUE, value |-> outcome.data ]

\* The result of one pass through the try block of _read_sdo_with_retry
\* (lines 287-288): the decoded value, or an exception from either call.
SdoAttempt(outcome, spec) ==
    IF outcome.raised THEN [ ok |-> FALSE, value |-> << >> ]
    ELSE _decode_sdo_value(outcome, spec)


\* MasterConfig values (load_topology): two drives, the first with two PDO
\* remap entries and no identity check, the second with a vendor and a
\* product check, under strict PDO sizes; one drive configured at a position
\* past the bus; one slave of a kind _build_adapter does not know; one drive
\* with a vendor check configured at position -1, and one at position -3.
Topologies ==
    { [ iface |-> "eth0", strict_pdo_size |-> TRUE,
        slaves |-> << [ name |-> "drive1", position |-> 0, kind |-> "ds402",
                        vendor_id |-> 0, product_code |-> 0,
                        pdo_mapping |-> << [ index |-> 7186, subindex |-> 0,
                                             value |-> 0, size |-> 1 ],
                                           [ index |-> 7186, subindex |-> 1,
                                             value |-> 5632, size |-> 2 ] >> ],
                      [ name |-> "drive2", position |-> 1, kind |-> "ds402",
                        vendor_id |-> 716, product_code |-> 1,
                        pdo_mapping |-> << >> ] >> ],
      [ iface |-> "eth0", strict_pdo_size |-> FALSE,
        slaves |-> << [ name |-> "drive1", position |-> 2, kind |-> "ds402",
                        vendor_id |-> 0, product_code |-> 0,
                        pdo_mapping |-> << >> ] >> ],
      [ iface |-> "eth0", strict_pdo_size |-> FALSE,
        slaves |-> << [ name |-> "io1", position |-> 0, kind |-> "io",
                        vendor_id |-> 0, product_code |-> 0,
                        pdo_mapping |-> << >> ] >> ],
      [ iface |-> "eth0", strict_pdo_size |-> FALSE,
        slaves |-> << [ name |-> "drive1", position |-> -1, kind |-> "ds402",
                        vendor_id |-> 716, product_code |-> 0,
                        pdo_mapping |-> << [ index |-> 7186, subindex |-> 0,
                                             value |-> 0, size |-> 1 ] >> ] >> ],
      [ iface |-> "eth0", strict_pdo_size |-> FALSE,
        slaves |-> << [ name |-> "drive1", position |-> -3, kind |-> "ds402",
                        vendor_id |-> 0, product_code |-> 0,
                        pdo_mapping |-> << >> ] >> ] }

\* MasterConfig(iface="eth0"): the fields left at the defaults of the
\* dataclass, slaves being the empty list.
MasterConfigDefaults ==
    [ iface |-> "eth0", strict_pdo_size |-> FALSE, slaves |-> << >> ]

\* The import of the transport library: absent, or present with or without
\* the SAFEOP_STATE attribute (line 216).
Pysoem ==
    { [ installed |-> FALSE, has_safeop |-> FALSE ],
      [ installed |-> TRUE,  has_safeop |-> FALSE ],
      [ installed |-> TRUE,  has_safeop |-> TRUE ] }

\* An attribute the slave object does not have, or has as None.
Absent == -1

\* A slave object of master.slaves as config_init leaves it; output and
\* input are the lengths of the process-data buffers.
DetectedSlave(man, ibytes) ==
    [ man |-> man, id |-> 1, obytes |-> RX_PDO_SIZE, ibytes |-> ibytes,
      obits |-> Absent, ibits |-> Absent,
      output |-> RX_PDO_SIZE, input |-> ibytes,
      state |-> INIT_STATE, al_status_code |-> 0 ]

\* What config_init can find on the wire: nothing; the two drives; two
\* slaves of which the second is of another vendor, or another product; two
\* drives of which the second maps the legacy input layout; two drives of which the second maps
\* fewer output bytes; two drives whose objects give their sizes in bits (the
\* second with a last byte partly used), as buffers only, or not at all.
Buses ==
    { << >>,
      << DetectedSlave(716, TX_PDO_SIZE), DetectedSlave(716, TX_PDO_SIZE) >>,
      << DetectedSlave(716, TX_PDO_SIZE), DetectedSlave(2, TX_PDO_SIZE) >>,
      << DetectedSlave(716, TX_PDO_SIZE),
         [ DetectedSlave(716, TX_PDO_SIZE) EXCEPT !.id = 2 ] >>,
      << DetectedSlave(716, TX_PDO_SIZE),
         [ DetectedSlave(2, TX_PDO_SIZE) EXCEPT !.id = 2 ] >>,
      << DetectedSlave(716, TX_PDO_SIZE), DetectedSlave(716, LEGACY_TX_PDO_SIZE) >>,
      << DetectedSlave(716, TX_PDO_SIZE),
         [ DetectedSlave(716, TX_PDO_SIZE) EXCEPT !.obytes = 8, !.output = 8 ] >>,
      << [ DetectedSlave(716, TX_PDO_SIZE) EXCEPT
             !.obytes = Absent, !.ibytes = Absent,
             !.obits = 8 * RX_PDO_SIZE, !.ibits = 8 * TX_PDO_SIZE ],
         [ DetectedSlave(716, TX_PDO_SIZE) EXCEPT
             !.obytes = Absent, !.ibytes = Absent,
             !.obits = 8 * RX_PDO_SIZE + 4, !.ibits = 8 * TX_PDO_SIZE ] >>,
      << [ DetectedSlave(716, TX_PDO_SIZE) EXCEPT
             !.obytes = Absent, !.ibytes = Absent ],
         [ DetectedSlave(716, TX_PDO_SIZE) EXCEPT
             !.obytes = Absent, !.ibytes = Absent, !.input = 0 ] >>,
      << [ DetectedSlave(716, TX_PDO_SIZE) EXCEPT
             !.obytes = Absent, !.ibytes = Absent,
             !.output = Absent, !.input = Absent ],
         DetectedSlave(716, TX_PDO_SIZE) >> }

\* master.state_check(state, 50_000) returns the state the bus reached within
\* the wait, which is the requested one or a lower one, or raises.
StateCheckOutcomes(requested) ==
    { [ raised |-> FALSE, state |-> requested ],
      [ raised |-> FALSE, state |-> INIT_STATE ],
      [ raised |-> TRUE,  state |-> INIT_STATE ] }

NoError == [ type |-> "", what |-> "", detail |-> << >> ]
NoRuntime == [ made |-> FALSE ]

\* EthercatMaster(config) before initialize() is called.  `master` is the
\* pysoem master with what has been done through it: the calls of open,
\* close and config_map, the state requested last (0: none), the slave
\* objects, and the SDO writes that succeeded, in order.  close_calls counts
\* the calls of EthercatMaster.close() and swallowed the exceptions they
\* caught and dropped.
NewMaster(config, pysoem) ==
    [ pc |-> "initialize", config |-> config, pysoem |-> pysoem,
      master |-> [ open |-> FALSE, opens |-> 0, closes |-> 0, maps |-> 0,
                   state |-> 0, slaves |-> << >>, writes |-> << >> ],
      checked |-> [ expected |-> 0, state |-> 0 ],
      i |-> 1, k |-> 1, attempt |-> 0, rounds |-> 0,
      close_calls |-> 0, swallowed |-> 0,
      values |-> EmptyMap, startup_params |-> EmptyMap, slaves_by_name |-> EmptyMap,
      runtime |-> NoRuntime, error |-> NoError ]

\* initialize() ends by raising.
Raise(b, type, what, detail) ==
    [ b EXCEPT !.pc = "raised",
               !.error = [ type |-> type, what |-> what, detail |-> detail ] ]

BringUpUnchanged ==
    UNCHANGED << pending_command, latest_status, stats, thread, stop_event, pc,
                 loc, next_tick, output, input, last_status_word, now, got, call,
                 hist >>

\* Lines 131-140: the library check, open, config_init and the slave count.
Discover ==
    /\ bringup.pc = "initialize"
    /\ IF ~bringup.pysoem.installed
       THEN bringup' = Raise(bringup, "RuntimeError", "pysoem is not installed", << >>)
       ELSE \E found \in Buses :
              IF Len(found) <= 0
              THEN bringup' = Raise([ bringup EXCEPT !.master.opens = @ + 1,
                                                     !.master.closes = @ + 1 ],
                                    "RuntimeError", "No EtherCAT slaves detected", << >>)
              ELSE bringup' = [ bringup EXCEPT !.master.open = TRUE,
                                               !.master.opens = @ + 1,
                                               !.master.slaves = found,
                                               !.pc = "preop" ]
    /\ BringUpUnchanged

\* _transition_to_preop, lines 203-206: the value state_check returns is not
\* looked at.
TransitionToPreop ==
    /\ bringup.pc = "preop"
    /\ \E r \in StateCheckOutcomes(PREOP_STATE) :
         LET b == [ bringup EXCEPT
                      !.master.state = PREOP_STATE,
                      !.checked = [ expected |-> PREOP_STATE, state |-> r.state ] ]
         IN bringup' = IF r.raised
                       THEN Raise(b, "Exception", "state_check", << >>)
                       ELSE [ b EXCEPT !.pc = "adapters" ]
    /\ BringUpUnchanged

\* master.slaves[position]: the list index of Python, which counts a
\* negative position from the end of the list.
SlaveAt(slaves, position) ==
    slaves[IF position < 0 THEN Len(slaves) + position + 1 ELSE position + 1]

\* Lines 145-147: _build_adapter for every configured slave.
BuildAdapters ==
    /\ bringup.pc = "adapters"
    /\ LET slaves == bringup.config.slaves
           bad == { n \in DOMAIN slaves : slaves[n].kind # "ds402" }
       IN bringup' =
            IF bad # {}
            THEN Raise(bringup, "MasterConfigError", "Unsupported slave kind",
                       << [ name |-> slaves[Min(bad)].name,
                            kind |-> slaves[Min(bad)].kind ] >>)
            ELSE [ bringup EXCEPT !.pc = "slave", !.i = 1 ]
    /\ BringUpUnchanged


\* Variant of _validate_identity that compares the vendor and the product
\* also when the configured value is 0.
_validate_identity_always(cfg, slave) ==
    IF slave.man # cfg.vendor_id THEN "vendor mismatch"
    ELSE IF slave.id # cfg.product_code THEN "product mismatch"
    ELSE ""

\* _validate_identity: the first mismatch, "" when there is none.
_validate_identity(cfg, slave) ==
    IF cfg.vendor_id # 0 /\ slave.man # cfg.vendor_id THEN "vendor mismatch"
    ELSE IF cfg.product_code # 0 /\ slave.id # cfg.product_code
         THEN "product mismatch"
    ELSE ""

\* Variant of SlaveBegin that starts the startup reads of a slave before
\* its identity has been compared.
SlaveBeginUnvalidated ==
    /\ bringup.pc = "slave"
    /\ LET slaves == bringup.config.slaves
           cfg == slaves[bringup.i]
       IN bringup' =
            IF bringup.i > Len(slaves)
            THEN [ bringup EXCEPT !.pc = "config_map" ]
            ELSE IF cfg.position >= Len(bringup.master.slaves)
            THEN Raise([ bringup EXCEPT !.master.closes = @ + 1,
                                        !.master.open = FALSE ],
                       "MasterConfigError", "Configured position out of range",
                       << [ position |-> cfg.position,
                            detected |-> Len(bringup.master.slaves) ] >>)
            ELSE IF cfg.position < -Len(bringup.master.slaves)
            THEN Raise(bringup, "IndexError", "list index out of range", << >>)
            ELSE [ bringup EXCEPT !.pc = "sdo", !.k = 1, !.attempt = 0,
                                  !.values = EmptyMap ]
    /\ BringUpUnchanged

\* Lines 149-157: the head of the loop over the configured slaves, the
\* position check and the identity check.
SlaveBegin ==
    /\ bringup.pc = "slave"
    /\ LET slaves == bringup.config.slaves
           cfg == slaves[bringup.i]
           slave == SlaveAt(bringup.master.slaves, cfg.position)
       IN bringup' =
            IF bringup.i > Len(slaves)
            THEN [ bringup EXCEPT !.pc = "config_map" ]
            ELSE IF cfg.position >= Len(bringup.master.slaves)
            THEN Raise([ bringup EXCEPT !.master.closes = @ + 1,
                                        !.master.open = FALSE ],
                       "MasterConfigError", "Configured position out of range",
                       << [ position |-> cfg.position,
                            detected |-> Len(bringup.master.slaves) ] >>)
            ELSE IF cfg.position < -Len(bringup.master.slaves)
            THEN Raise(bringup, "IndexError", "list index out of range", << >>)
            ELSE IF _validate_identity(cfg, slave) # ""
            THEN Raise(bringup, "MasterConfigError", _validate_identity(cfg, slave),
                       << [ name |-> cfg.name ] >>)
            ELSE [ bringup EXCEPT !.pc = "sdo", !.k = 1, !.attempt = 0,
                                  !.values = EmptyMap ]
    /\ BringUpUnchanged

\* A dict with key `key` set to `value`.
DictSet(dict, key, value) ==
    [ n \in DOMAIN dict \cup { key } |-> IF n = key THEN value ELSE dict[n] ]

\* _read_adapter_startup_params (252-280) and _read_sdo_with_retry (282-297),
\* one attempt per step: the next declared parameter is read and decoded; a
\* failed attempt is followed by a sleep and another attempt unless it was
\* the last of range(5).  After the last parameter the values are stored
\* under the slave's name (line 158).
SdoRead ==
    /\ bringup.pc = "sdo"
    /\ LET cfg == bringup.config.slaves[bringup.i]
           specs == startup_read_specs(cfg.kind)
           spec == specs[bringup.k]
       IN IF bringup.k > Len(specs)
          THEN bringup' = [ bringup EXCEPT
                              !.startup_params = DictSet(@, cfg.name, bringup.values),
                              !.pc = "pdo", !.k = 1, !.attempt = 0 ]
          ELSE \E outcome \in SdoReadOutcomes :
                 \E r \in { SdoAttempt(outcome, spec) } :
                   bringup' =
                     IF r.ok
                     THEN [ bringup EXCEPT !.values = DictSet(@, spec.name, r.value),
                                           !.k = @ + 1, !.attempt = 0 ]
                     ELSE IF bringup.attempt + 1 < SdoReadAttempts
                     THEN [ bringup EXCEPT !.attempt = @ + 1 ]
                     ELSE Raise([ bringup EXCEPT !.attempt = @ + 1 ],
                                "MasterConfigError", "Startup SDO read failed",
                                << [ name |-> cfg.name, key |-> spec.name,
                                     index |-> spec.index,
                                     subindex |-> spec.subindex,
                                     data_type |-> spec.data_type ] >>)
    /\ BringUpUnchanged

\* Variant of PdoWrite that gives up an entry after its last failed attempt
\* and goes on with the next entry.
PdoWriteSkipsFailed ==
    /\ bringup.pc = "pdo"
    /\ LET cfg == bringup.config.slaves[bringup.i]
           item == cfg.pdo_mapping[bringup.k]
       IN IF bringup.k > Len(cfg.pdo_mapping)
          THEN bringup' = [ bringup EXCEPT
                              !.slaves_by_name = DictSet(@, cfg.name, cfg.position),
                              !.pc = "slave", !.i = @ + 1 ]
          ELSE \E written \in BOOLEAN :
                 bringup' =
                   IF written
                   THEN [ bringup EXCEPT
                            !.k = @ + 1, !.attempt = 0,
                            !.master.writes =
                                Append(@, [ name |-> cfg.name, index |-> item.index,
                                            subindex |-> item.subindex ]) ]
                   ELSE IF bringup.attempt + 1 < SdoWriteAttempts
                   THEN [ bringup EXCEPT !.attempt = @ + 1 ]
                   ELSE [ bringup EXCEPT !.k = @ + 1, !.attempt = 0 ]
    /\ BringUpUnchanged

\* Variant of PdoWrite that builds the process-data mapping as soon as the
\* remap of one slave is done.
PdoWriteThenMap ==
    /\ bringup.pc = "pdo"
    /\ LET cfg == bringup.config.slaves[bringup.i]
           item == cfg.pdo_mapping[bringup.k]
       IN IF bringup.k > Len(cfg.pdo_mapping)
          THEN bringup' = [ bringup EXCEPT
                              !.slaves_by_name = DictSet(@, cfg.name, cfg.position),
                              !.master.maps = @ + 1,
                              !.pc = "slave", !.i = @ + 1 ]
          ELSE \E written \in BOOLEAN :
                 bringup' =
                   IF written
                   THEN [ bringup EXCEPT
                            !.k = @ + 1, !.attempt = 0,
                            !.master.writes =
                                Append(@, [ name |-> cfg.name, index |-> item.index,
                                            subindex |-> item.subindex ]) ]
                   ELSE IF bringup.attempt + 1 < SdoWriteAttempts
                   THEN [ bringup EXCEPT !.attempt = @ + 1 ]
                   ELSE Raise([ bringup EXCEPT !.attempt = @ + 1 ],
                              "MasterConfigError", "PDO mapping SDO write failed",
                              << [ name |-> cfg.name, index |-> item.index,
                                   subindex |-> item.subindex ] >>)
    /\ BringUpUnchanged

\* _configure_pdo_mapping (342-378), one sdo_write attempt per step; after
\* the last entry the slave is registered (line 164) and the loop goes on.
PdoWrite ==
    /\ bringup.pc = "pdo"
    /\ LET cfg == bringup.config.slaves[bringup.i]
           item == cfg.pdo_mapping[bringup.k]
       IN IF bringup.k > Len(cfg.pdo_mapping)
          THEN bringup' = [ bringup EXCEPT
                              !.slaves_by_name = DictSet(@, cfg.name, cfg.position),
                              !.pc = "slave", !.i = @ + 1 ]
          ELSE \E written \in BOOLEAN :
                 bringup' =
                   IF written
                   THEN [ bringup EXCEPT
                            !.k = @ + 1, !.attempt = 0,
                            !.master.writes =
                                Append(@, [ name |-> cfg.name, index |-> item.index,
                                            subindex |-> item.subindex ]) ]
                   ELSE IF bringup.attempt + 1 < SdoWriteAttempts
                   THEN [ bringup EXCEPT !.attempt = @ + 1 ]
                   ELSE Raise([ bringup EXCEPT !.attempt = @ + 1 ],
                              "MasterConfigError", "PDO mapping SDO write failed",
                              << [ name |-> cfg.name, index |-> item.index,
                                   subindex |-> item.subindex ] >>)
    /\ BringUpUnchanged

\* _get_slave_pdo_sizes: the byte counts, else the bit counts in whole
\* bytes, else the lengths of the mapped buffers, else an error.
_get_slave_pdo_sizes(slave) ==
    IF slave.obytes # Absent /\ slave.ibytes # Absent
    THEN [ ok |-> TRUE, rx |-> slave.obytes, tx |-> slave.ibytes ]
    ELSE IF slave.obits # Absent /\ slave.ibits # Absent
    THEN [ ok |-> TRUE, rx |-> slave.obits \div 8, tx |-> slave.ibits \div 8 ]
    ELSE IF slave.output # Absent /\ slave.input # Absent
    THEN [ ok |-> TRUE, rx |-> slave.output, tx |-> slave.input ]
    ELSE [ ok |-> FALSE, rx |-> 0, tx |-> 0 ]

\* Variant of _validate_pdo_sizes that compares the output size only.
_validate_rx_pdo_size(cfg, slave) ==
    LET sizes == _get_slave_pdo_sizes(slave)
    IN IF ~sizes.ok
       THEN [ what |-> "Unable to determine slave PDO sizes", expected |-> 0, got |-> 0 ]
       ELSE IF sizes.rx # RX_PDO_SIZE
       THEN [ what |-> "RX PDO size mismatch", expected |-> RX_PDO_SIZE, got |-> sizes.rx ]
       ELSE [ what |-> "", expected |-> 0, got |-> 0 ]

\* _validate_pdo_sizes against the ds402 adapter's rx_pdo_size and
\* tx_pdo_size: the error it raises with the sizes it names, `what` being ""
\* when it returns.
_validate_pdo_sizes(cfg, slave) ==
    LET sizes == _get_slave_pdo_sizes(slave)
    IN IF ~sizes.ok
       THEN [ what |-> "Unable to determine slave PDO sizes", expected |-> 0, got |-> 0 ]
       ELSE IF sizes.rx # RX_PDO_SIZE
       THEN [ what |-> "RX PDO size mismatch", expected |-> RX_PDO_SIZE, got |-> sizes.rx ]
       ELSE IF sizes.tx # TX_PDO_SIZE
       THEN [ what |-> "TX PDO size mismatch", expected |-> TX_PDO_SIZE, got |-> sizes.tx ]
       ELSE [ what |-> "", expected |-> 0, got |-> 0 ]

\* Lines 167-172: config_map, then the size validation under strict_pdo_size.
ConfigMap ==
    /\ bringup.pc = "config_map"
    /\ LET slaves == bringup.config.slaves
           failure == [ n \in DOMAIN slaves |->
                          _validate_pdo_sizes(
                              slaves[n],
                              SlaveAt(bringup.master.slaves, slaves[n].position)) ]
           bad == { n \in DOMAIN slaves : failure[n].what # "" }
       IN bringup' =
            IF bringup.config.strict_pdo_size /\ bad # {}
            THEN Raise([ bringup EXCEPT !.master.maps = @ + 1 ],
                       "MasterConfigError", failure[Min(bad)].what,
                       << [ name |-> slaves[Min(bad)].name,
                            expected |-> failure[Min(bad)].expected,
                            got |-> failure[Min(bad)].got ] >>)
            ELSE [ bringup EXCEPT !.master.maps = @ + 1, !.pc = "safeop" ]
    /\ BringUpUnchanged


\* _transition_to_operational, lines 216-220: SAFE-OP is requested and waited
\* for when the library has SAFEOP_STATE; the value state_check returns is
\* not looked at.
TransitionToSafeop ==
    /\ bringup.pc = "safeop"
    /\ IF bringup.pysoem.has_safeop
       THEN \E r \in StateCheckOutcomes(SAFEOP_STATE) :
              LET b == [ bringup EXCEPT
                           !.master.state = SAFEOP_STATE,
                           !.checked = [ expected |-> SAFEOP_STATE,
                                         state |-> r.state ] ]
              IN bringup' = IF r.raised
                            THEN Raise(b, "Exception", "state_check", << >>)
                            ELSE [ b EXCEPT !.pc = "prime", !.rounds = 0 ]
       ELSE bringup' = [ bringup EXCEPT !.pc = "prime", !.rounds = 0 ]
    /\ BringUpUnchanged

\* Variant of PrimeRound that may leave the priming loop after any round.
PrimeRoundEarlyExit ==
    /\ bringup.pc = "prime"
    /\ \E next \in { "prime", "op_request" } :
         /\ next = "prime" => bringup.rounds + 1 < PrimeRounds
         /\ bringup' = [ bringup EXCEPT !.rounds = @ + 1, !.pc = next ]
    /\ BringUpUnchanged

\* Lines 223-225: one round of the priming loop, send_processdata then
\* receive_processdata(2_000).
PrimeRound ==
    /\ bringup.pc = "prime"
    /\ bringup' = [ bringup EXCEPT
                      !.rounds = @ + 1,
                      !.pc = IF bringup.rounds + 1 < PrimeRounds THEN "prime"
                             ELSE "op_request" ]
    /\ BringUpUnchanged

\* Lines 227-228: master.state = OP_STATE; master.write_state().
RequestOp ==
    /\ bringup.pc = "op_request"
    /\ bringup' = [ bringup EXCEPT !.master.state = OP_STATE,
                                   !.rounds = 0, !.pc = "op_wait" ]
    /\ BringUpUnchanged

\* What read_state can find in a slave: SAFE-OP, SAFE-OP with the error flag
\* and an AL status code, OP, OP with the error flag.
AlReports ==
    { [ state |-> SAFEOP_STATE, al_status_code |-> 0 ],
      [ state |-> SAFEOP_STATE + ERROR_FLAG, al_status_code |-> 29 ],
      [ state |-> OP_STATE, al_status_code |-> 0 ],
      [ state |-> OP_STATE + ERROR_FLAG, al_status_code |-> 27 ] }

\* Variant of _all_configured_slaves_in_op that is satisfied by one
\* configured slave in OP.
_any_configured_slave_in_op(config, slaves) ==
    \E n \in DOMAIN config.slaves :
        BitAnd(SlaveAt(slaves, config.slaves[n].position).state, 15) = OP_STATE

\* _all_configured_slaves_in_op on the slave objects `slaves`.
_all_configured_slaves_in_op(config, slaves) ==
    \A n \in DOMAIN config.slaves :
        BitAnd(SlaveAt(slaves, config.slaves[n].position).state, 15) = OP_STATE

\* _format_state_error: one line per configured slave.
_format_state_error(config, slaves) ==
    [ n \in DOMAIN config.slaves |->
        [ name |-> config.slaves[n].name,
          pos |-> config.slaves[n].position,
          state |-> SlaveAt(slaves, config.slaves[n].position).state,
          al_status |-> SlaveAt(slaves, config.slaves[n].position).al_status_code ] ]

\* Lines 231-239: one round of the loop after the OP request: send, receive,
\* read_state, the test of the slaves' states, and the sleep; after the last
\* round of range(50) the error is raised.
OpRound ==
    /\ bringup.pc = "op_wait"
    /\ \E reports \in [ DOMAIN bringup.master.slaves -> AlReports ] :
         LET slaves == [ n \in DOMAIN bringup.master.slaves |->
                           [ bringup.master.slaves[n] EXCEPT
                               !.state = reports[n].state,
                               !.al_status_code = reports[n].al_status_code ] ]
             b == [ bringup EXCEPT !.master.slaves = slaves, !.rounds = @ + 1 ]
         IN bringup' =
              IF _all_configured_slaves_in_op(bringup.config, slaves)
              THEN [ b EXCEPT !.pc = "operational" ]
              ELSE IF bringup.rounds + 1 < OpRounds
              THEN b
              ELSE Raise(b, "MasterConfigError",
                         "Failed to reach OP for all configured slaves",
                         _format_state_error(bringup.config, slaves))
    /\ BringUpUnchanged

\* Lines 176-182: the runtime is stored and returned.
ReturnRuntime ==
    /\ bringup.pc = "operational"
    /\ bringup' = [ bringup EXCEPT
                      !.runtime = [ made |-> TRUE,
                                    adapters |-> { bringup.config.slaves[n].name :
                                                     n \in DOMAIN bringup.config.slaves },
                                    slaves_by_name |-> bringup.slaves_by_name,
                                    startup_params |-> bringup.startup_params ],
                      !.pc = "returned" ]
    /\ BringUpUnchanged

\* The calls of close() made on one EthercatMaster.
MaxCloseCalls == 2

\* Variant of Close in which an exception of the settle wait leaves close()
\* before the transport is closed.
CloseAfterSettle ==
    /\ bringup.pc \in { "initialize", "returned", "raised", "closed" }
    /\ bringup.close_calls < MaxCloseCalls
    /\ IF ~bringup.runtime.made
       THEN bringup' = [ bringup EXCEPT !.close_calls = @ + 1 ]
       ELSE \E r \in StateCheckOutcomes(INIT_STATE) :
              LET b == [ bringup EXCEPT
                           !.close_calls = @ + 1,
                           !.master.state = INIT_STATE,
                           !.checked = [ expected |-> INIT_STATE, state |-> r.state ] ]
              IN bringup' =
                   IF r.raised
                   THEN [ b EXCEPT !.error = [ type |-> "Exception",
                                               what |-> "state_check",
                                               detail |-> << >> ] ]
                   ELSE [ b EXCEPT !.master.open = FALSE,
                                   !.master.closes = @ + 1,
                                   !.runtime = NoRuntime,
                                   !.pc = "closed" ]
    /\ BringUpUnchanged

\* close(), lines 184-201, called when initialize() is not running: nothing
\* without a runtime; else INIT is requested and waited for, an exception of
\* the wait is dropped, the transport is closed and the runtime forgotten.
Close ==
    /\ bringup.pc \in { "initialize", "returned", "raised", "closed" }
    /\ bringup.close_calls < MaxCloseCalls
    /\ IF ~bringup.runtime.made
       THEN bringup' = [ bringup EXCEPT !.close_calls = @ + 1 ]
       ELSE \E r \in StateCheckOutcomes(INIT_STATE) :
              bringup' = [ bringup EXCEPT
                             !.close_calls = @ + 1,
                             !.master.state = INIT_STATE,
                             !.checked = [ expected |-> INIT_STATE, state |-> r.state ],
                             !.swallowed = IF r.raised THEN @ + 1 ELSE @,
                             !.master.open = FALSE,
                             !.master.closes = @ + 1,
                             !.runtime = NoRuntime,
                             !.pc = "closed" ]
    /\ BringUpUnchanged

(***************************************************************************)
(* SpecBringUp: one call of initialize() on a fresh EthercatMaster, for    *)
(* every configuration, library and bus above.                             *)
(***************************************************************************)

InitBringUp ==
    /\ InitLoop
    /\ call = [ fn |-> "none" ]
    /\ bringup \in { NewMaster(config, pysoem) :
                       config \in Topologies \cup { MasterConfigDefaults },
                       pysoem \in Pysoem }

NextBringUp ==
    \/ Discover
    \/ TransitionToPreop
    \/ BuildAdapters
    \/ SlaveBegin
    \/ SdoRead
    \/ PdoWrite
    \/ ConfigMap
    \/ TransitionToSafeop
    \/ PrimeRound
    \/ RequestOp
    \/ OpRound
    \/ ReturnRuntime

SpecBringUp == InitBringUp /\ [][NextBringUp]_vars

(***************************************************************************)
(* SpecClose: the same with calls of close() before and after initialize().*)
(***************************************************************************)

NextClose ==
    \/ NextBringUp
    \/ Close

SpecClose == InitBringUp /\ [][NextClose]_vars


(***************************************************************************)
(* Properties of the bring-up, checked under SpecBringUp.                  *)
(***************************************************************************)

\* Every configured slave's state, as read last, is OP once the error flag
\* is masked.
EverySlaveReportsOp ==
    \A n \in DOMAIN bringup.config.slaves :
        SlaveAt(bringup.master.slaves, bringup.config.slaves[n].position).state % 16
            = OP_STATE

\* C17: a runtime exists only after a round, among at most 50 after the OP
\* request, in which every configured slave reported OP (error flag
\* masked); while initialize waits for OP fewer than 50 rounds are behind
\* it; and it raises "Failed to reach OP" exactly after the 50th round, with
\* one line per configured slave giving its name, position, raw state and
\* AL status code as read in that round.
C17_OpWithinFiftyRounds ==
    /\ bringup.pc = "op_wait" => bringup.rounds < OpRounds
    /\ bringup.pc \in { "operational", "returned" }
          => /\ bringup.rounds \in 1..OpRounds
             /\ EverySlaveReportsOp
    /\ bringup.runtime.made => bringup.pc = "returned"
    /\ (bringup.pc = "raised"
          /\ bringup.error.what = "Failed to reach OP for all configured slaves")
          => /\ bringup.rounds = OpRounds
             /\ ~EverySlaveReportsOp
             /\ ~bringup.runtime.made
             /\ DOMAIN bringup.error.detail = DOMAIN bringup.config.slaves
             /\ \A n \in DOMAIN bringup.config.slaves :
                  LET cfg == bringup.config.slaves[n]
                      slave == SlaveAt(bringup.master.slaves, cfg.position)
                  IN bringup.error.detail[n] =
                       [ name |-> cfg.name, pos |-> cfg.position,
                         state |-> slave.state,
                         al_status |-> slave.al_status_code ]

\* C17 witness: the budget is exhausted; the error lists both drives, the
\* second still in SAFE-OP with the error flag and its AL status code.
C17_Witness ==
    /\ bringup.pc = "raised"
    /\ bringup.error.what = "Failed to reach OP for all configured slaves"
    /\ bringup.rounds = OpRounds
    /\ Len(bringup.error.detail) = 2
    /\ bringup.error.detail[1].state = OP_STATE
    /\ bringup.error.detail[2] =
         [ name |-> "drive2", pos |-> 1, state |-> SAFEOP_STATE + ERROR_FLAG,
           al_status |-> 29 ]

\* C18: the requested state becomes OP only in the step after the priming
\* loop, when exactly 5 send/receive rounds have been made and, if the
\* library has SAFE-OP, SAFE-OP is the state requested and waited for last;
\* every priming step makes one round, and OP is not requested while the
\* priming loop runs.
C18_OpRequestedAfterPriming ==
    /\ [](bringup.pc = "prime"
            => bringup.rounds < PrimeRounds /\ bringup.master.state # OP_STATE)
    /\ [][ /\ (bringup.pc = "prime" /\ bringup' # bringup)
                => /\ bringup'.rounds = bringup.rounds + 1
                   /\ bringup'.master = bringup.master
                   /\ bringup'.pc = "op_request" <=> bringup'.rounds = PrimeRounds
           /\ (bringup.master.state # OP_STATE /\ bringup'.master.state = OP_STATE)
                => /\ bringup.pc = "op_request"
                   /\ bringup.rounds = PrimeRounds
                   /\ bringup.pysoem.has_safeop
                        => /\ bringup.master.state = SAFEOP_STATE
                           /\ bringup.checked.expected = SAFEOP_STATE
          ]_vars

\* C18 witness: OP has just been requested on a library with SAFE-OP, after
\* SAFE-OP was confirmed.
C18_Witness ==
    /\ bringup.pc = "op_wait"
    /\ bringup.rounds = 0
    /\ bringup.master.state = OP_STATE
    /\ bringup.pysoem.has_safeop
    /\ bringup.checked = [ expected |-> SAFEOP_STATE, state |-> SAFEOP_STATE ]

\* C19: when the wait for PRE-OP ended with the bus in another state, no
\* startup SDO is read: no value is ever cached.  (Violated: the state the
\* wait returns is not looked at, and bring-up goes on to the SDO reads.)
C19_NoSdoReadWithoutPreop ==
    (bringup.checked.expected = PREOP_STATE /\ bringup.checked.state # PREOP_STATE)
        => /\ bringup.values = EmptyMap
           /\ bringup.startup_params = EmptyMap

\* The values a successful attempt can store for `spec`.
DecodedValues(spec) ==
    { _decode_sdo_value(o, spec).value :
        o \in { x \in SdoReadOutcomes :
                  ~x.raised /\ _decode_sdo_value(x, spec).ok } }

\* C20: while a parameter is being read fewer than 5 attempts have been
\* made for it; every step of the read makes one attempt, which either
\* stores the decoded value under the parameter's key and moves on to the
\* next parameter, or leaves the cache alone and counts the failure, raising
\* exactly when it was the 5th; the error names the slave, the key and the
\* index and subindex; and a returned runtime holds a decoded value for
\* every parameter every configured slave declares.
C20_SdoReadRetries ==
    /\ [](bringup.pc = "sdo" => bringup.attempt < SdoReadAttempts)
    /\ [](bringup.runtime.made
            => \A n \in DOMAIN bringup.config.slaves :
                 LET cfg == bringup.config.slaves[n]
                     specs == startup_read_specs(cfg.kind)
                 IN /\ cfg.name \in DOMAIN bringup.runtime.startup_params
                    /\ \A j \in DOMAIN specs :
                         /\ specs[j].name \in
                                DOMAIN bringup.runtime.startup_params[cfg.name]
                         /\ bringup.runtime.startup_params[cfg.name][specs[j].name]
                                \in DecodedValues(specs[j]))
    /\ [][ (bringup.pc = "sdo" /\ bringup' # bringup
              /\ bringup.k <= Len(startup_read_specs(
                                      bringup.config.slaves[bringup.i].kind)))
             => LET cfg == bringup.config.slaves[bringup.i]
                    spec == startup_read_specs(cfg.kind)[bringup.k]
                IN \/ /\ bringup'.pc = "sdo"
                      /\ bringup'.k = bringup.k + 1
                      /\ bringup'.attempt = 0
                      /\ DOMAIN bringup'.values = DOMAIN bringup.values \cup { spec.name }
                      /\ bringup'.values[spec.name] \in DecodedValues(spec)
                   \/ /\ bringup'.values = bringup.values
                      /\ bringup'.k = bringup.k
                      /\ bringup'.attempt = bringup.attempt + 1
                      /\ bringup'.pc = IF bringup'.attempt = SdoReadAttempts
                                       THEN "raised" ELSE "sdo"
                      /\ bringup'.pc = "raised"
                           => /\ bringup'.error.what = "Startup SDO read failed"
                              /\ bringup'.error.detail =
                                   << [ name |-> cfg.name, key |-> spec.name,
                                        index |-> spec.index,
                                        subindex |-> spec.subindex,
                                        data_type |-> spec.data_type ] >>
          ]_vars

\* C20 witness: the second drive's third parameter failed five times after
\* the two before it were cached; bring-up has raised naming it.
C20_Witness ==
    /\ bringup.pc = "raised"
    /\ bringup.error.what = "Startup SDO read failed"
    /\ bringup.attempt = SdoReadAttempts
    /\ bringup.i = 2
    /\ bringup.k = 3
    /\ DOMAIN bringup.values = { "torque_loop_max_output", "torque_loop_min_output" }
    /\ bringup.error.detail[1].name = "drive2"
    /\ bringup.error.detail[1].key = "velocity_loop_kp"
    /\ bringup.error.detail[1].index = 9482


\* The successful SDO writes made to the slave called `name`, in order.
WritesTo(name) ==
    LET ToName(w) == w.name = name
    IN SelectSeq(bringup.master.writes, ToName)

\* C21: the writes that succeeded on a slave are always the first entries of
\* its pdo_mapping, in list order; while an entry is being written fewer
\* than 5 attempts have been made for it; every step of the remap makes one
\* attempt on the current entry, which either succeeds and moves on to the
\* next entry, or fails and is counted, raising exactly when it was the 5th
\* with an error naming the slave, index and subindex; and once bring-up has
\* raised nothing more is written.
C21_RemapWritesInOrder ==
    /\ [](bringup.pc = "pdo" => bringup.attempt < SdoWriteAttempts)
    /\ [](\A n \in DOMAIN bringup.config.slaves :
            LET cfg == bringup.config.slaves[n]
                done == WritesTo(cfg.name)
            IN /\ Len(done) <= Len(cfg.pdo_mapping)
               /\ \A j \in DOMAIN done :
                    /\ done[j].index = cfg.pdo_mapping[j].index
                    /\ done[j].subindex = cfg.pdo_mapping[j].subindex)
    /\ [][ /\ bringup'.master.writes # bringup.master.writes => bringup.pc = "pdo"
           /\ (bringup.pc = "pdo" /\ bringup' # bringup
                 /\ bringup.k <= Len(bringup.config.slaves[bringup.i].pdo_mapping))
                => LET cfg == bringup.config.slaves[bringup.i]
                       item == cfg.pdo_mapping[bringup.k]
                   IN \/ /\ bringup'.master.writes =
                              Append(bringup.master.writes,
                                     [ name |-> cfg.name, index |-> item.index,
                                       subindex |-> item.subindex ])
                         /\ bringup'.k = bringup.k + 1
                         /\ bringup'.attempt = 0
                         /\ bringup'.pc = "pdo"
                      \/ /\ bringup'.master.writes = bringup.master.writes
                         /\ bringup'.k = bringup.k
                         /\ bringup'.attempt = bringup.attempt + 1
                         /\ bringup'.pc = IF bringup'.attempt = SdoWriteAttempts
                                          THEN "raised" ELSE "pdo"
                         /\ bringup'.pc = "raised"
                              => /\ bringup'.error.type = "MasterConfigError"
                                 /\ bringup'.error.what = "PDO mapping SDO write failed"
                                 /\ bringup'.error.detail =
                                      << [ name |-> cfg.name, index |-> item.index,
                                           subindex |-> item.subindex ] >>
          ]_vars

\* C21 witness: the first entry of drive1 was written, the second failed
\* five times, and bring-up has raised naming it.
C21_Witness ==
    /\ bringup.pc = "raised"
    /\ bringup.error.what = "PDO mapping SDO write failed"
    /\ bringup.attempt = SdoWriteAttempts
    /\ bringup.master.writes = << [ name |-> "drive1", index |-> 7186, subindex |-> 0 ] >>
    /\ bringup.error.detail[1].name = "drive1"
    /\ bringup.error.detail[1].subindex = 1


\* initialize() is at a step before config_map, or has raised in one.
BeforeConfigMap ==
    \/ bringup.pc \in { "initialize", "preop", "adapters", "slave", "sdo", "pdo",
                        "config_map" }
    \/ /\ bringup.pc = "raised"
       /\ \/ bringup.error.what \in
               { "pysoem is not installed", "No EtherCAT slaves detected",
                 "Unsupported slave kind", "Configured position out of range",
                 "list index out of range",
                 "vendor mismatch", "product mismatch", "Startup SDO read failed",
                 "PDO mapping SDO write failed" }
          \/ /\ bringup.error.what = "state_check"
             /\ bringup.checked.expected = PREOP_STATE

\* C22: config_map has not been called while initialize() is before line 167
\* or has raised before it, and has been called exactly once from then on;
\* the call is made with every pdo_mapping entry of every configured slave
\* written; and no remap write is made after it.
C22_ConfigMapOnceAfterRemap ==
    /\ [](bringup.master.maps = IF BeforeConfigMap THEN 0 ELSE 1)
    /\ [](bringup.master.maps > 0
            => \A n \in DOMAIN bringup.config.slaves :
                 Len(WritesTo(bringup.config.slaves[n].name))
                   = Len(bringup.config.slaves[n].pdo_mapping))
    /\ [][ /\ bringup'.master.maps # bringup.master.maps
              => bringup.pc = "config_map"
           /\ bringup.master.maps > 0
              => bringup'.master.writes = bringup.master.writes ]_vars

\* C22 witness: initialize() has returned on the two-drive topology with
\* both remap entries of drive1 written and one call of config_map.
C22_Witness ==
    /\ bringup.pc = "returned"
    /\ bringup.runtime.made
    /\ bringup.master.maps = 1
    /\ Len(bringup.master.writes) = 2


\* The sizes the slave object of the n-th configured slave reports.
ReportedSizes(n) ==
    _get_slave_pdo_sizes(SlaveAt(bringup.master.slaves, bringup.config.slaves[n].position))

\* The n-th configured slave reports sizes, and they are not the adapter's.
SizeDiffers(n) ==
    /\ ReportedSizes(n).ok
    /\ \/ ReportedSizes(n).rx # RX_PDO_SIZE
       \/ ReportedSizes(n).tx # TX_PDO_SIZE

\* C23: a size-mismatch error is raised only under strict_pdo_size, with the
\* mapping built and PRE-OP still the last state requested; under
\* strict_pdo_size the step after config_map raises when a configured slave
\* reports an output or input size other than the adapter's, the error naming
\* a slave whose size differs, the adapter's size as expected and the slave's
\* as got, and goes on to the SAFE-OP request when every configured slave
\* reports the adapter's sizes.
C23_StrictPdoSizes ==
    /\ []((bringup.pc = "raised"
             /\ bringup.error.what \in { "RX PDO size mismatch", "TX PDO size mismatch" })
            => /\ bringup.config.strict_pdo_size
               /\ bringup.error.type = "MasterConfigError"
               /\ bringup.master.maps = 1
               /\ bringup.master.state = PREOP_STATE
               /\ bringup.error.detail[1].expected # bringup.error.detail[1].got)
    /\ [][ (bringup.pc = "config_map" /\ bringup' # bringup
              /\ bringup.config.strict_pdo_size)
             => LET configured == DOMAIN bringup.config.slaves
                    named == bringup'.error.detail[1]
                IN /\ (\E n \in configured : SizeDiffers(n))
                        => /\ bringup'.pc = "raised"
                           /\ bringup'.error.what \in
                                { "RX PDO size mismatch", "TX PDO size mismatch",
                                  "Unable to determine slave PDO sizes" }
                   /\ (bringup'.pc = "raised"
                         /\ bringup'.error.what = "RX PDO size mismatch")
                        => \E n \in configured :
                             /\ named.name = bringup.config.slaves[n].name
                             /\ named.expected = RX_PDO_SIZE
                             /\ named.got = ReportedSizes(n).rx
                             /\ named.got # RX_PDO_SIZE
                   /\ (bringup'.pc = "raised"
                         /\ bringup'.error.what = "TX PDO size mismatch")
                        => \E n \in configured :
                             /\ named.name = bringup.config.slaves[n].name
                             /\ named.expected = TX_PDO_SIZE
                             /\ named.got = ReportedSizes(n).tx
                             /\ named.got # TX_PDO_SIZE
                   /\ (\A n \in configured :
                         ReportedSizes(n).ok /\ ~SizeDiffers(n))
                        => bringup'.pc = "safeop"
          ]_vars

\* C23 witness: under strict_pdo_size the second drive maps the legacy input
\* layout, and initialize() has raised naming the adapter's and the slave's
\* input size, with the mapping built and PRE-OP the last state requested.
C23_Witness ==
    /\ bringup.pc = "raised"
    /\ bringup.config.strict_pdo_size
    /\ bringup.error.what = "TX PDO size mismatch"
    /\ bringup.error.detail = << [ name |-> "drive2", expected |-> TX_PDO_SIZE,
                                   got |-> LEGACY_TX_PDO_SIZE ] >>
    /\ bringup.master.maps = 1
    /\ bringup.master.state = PREOP_STATE


\* The slave object the configured slave in turn is checked against.
SlaveInTurn ==
    SlaveAt(bringup.master.slaves, bringup.config.slaves[bringup.i].position)

\* C24: when the loop of initialize() takes up a configured slave whose
\* position is on the bus, it raises an identity-mismatch error exactly when
\* the configured vendor_id is not 0 and is not the slave's vendor, or the
\* configured product_code is not 0 and is not the slave's product code; a
\* vendor mismatch is reported only for a differing non-zero vendor_id and a
\* product mismatch only for a differing non-zero product_code.
C24_IdentityMismatch ==
    [][ (/\ bringup.pc = "slave"
         /\ bringup' # bringup
         /\ bringup.i <= Len(bringup.config.slaves)
         /\ bringup.config.slaves[bringup.i].position \in
              0 .. Len(bringup.master.slaves) - 1)
          => LET cfg == bringup.config.slaves[bringup.i]
                 vendor == cfg.vendor_id # 0 /\ SlaveInTurn.man # cfg.vendor_id
                 product == cfg.product_code # 0 /\ SlaveInTurn.id # cfg.product_code
                 mismatch == /\ bringup'.pc = "raised"
                             /\ bringup'.error.type = "MasterConfigError"
                             /\ bringup'.error.what \in
                                  { "vendor mismatch", "product mismatch" }
             IN /\ mismatch <=> (vendor \/ product)
                /\ ~mismatch => bringup'.pc = "sdo"
                /\ (mismatch /\ bringup'.error.what = "vendor mismatch") => vendor
                /\ (mismatch /\ bringup'.error.what = "product mismatch") => product
                /\ mismatch => bringup'.error.detail[1].name = cfg.name
      ]_vars

\* C24 witness: drive2 is configured with vendor 716 and product 1, the
\* slave at its position is of that vendor and another product, and
\* initialize() has raised the product mismatch; drive1, configured with 0
\* for both, was accepted before it.
C24_Witness ==
    /\ bringup.pc = "raised"
    /\ bringup.error.what = "product mismatch"
    /\ bringup.i = 2
    /\ bringup.config.slaves[1].vendor_id = 0
    /\ bringup.config.slaves[1].product_code = 0
    /\ bringup.config.slaves[2].product_code = 1
    /\ SlaveInTurn.man = bringup.config.slaves[2].vendor_id
    /\ SlaveInTurn.id = 2


\* C25: SDO writes are made only to configured slaves whose position is one
\* of 0 .. count-1, count being the number of slaves detected.
C25_NoAccessOffTheBus ==
    \A n \in DOMAIN bringup.config.slaves :
        WritesTo(bringup.config.slaves[n].name) # << >>
          => bringup.config.slaves[n].position \in 0 .. Len(bringup.master.slaves) - 1


\* C26: when initialize() rejects a configuration for a slave of an unknown
\* kind, the transport has not been opened, no slave has been discovered and
\* no state request has been written.
C26_UnknownKindBeforeBusAccess ==
    (bringup.pc = "raised" /\ bringup.error.what = "Unsupported slave kind")
      => /\ bringup.master.opens = 0
         /\ bringup.master.slaves = << >>
         /\ bringup.master.state = 0

\* C27: the transport is opened only for a configuration with at least one
\* configured slave.
C27_NoTransportWithoutSlaves ==
    bringup.master.opens > 0 => Len(bringup.config.slaves) > 0


\* C28: a call of close() on a master with a runtime requests INIT, closes
\* the transport once and leaves the master without a runtime, with nothing
\* raised, also when the settle wait raised; a call of close() on a master
\* without a runtime (never initialized, failed, or closed before) changes
\* nothing of the transport; the transport a successful initialize() opened
\* is closed at most once.
C28_CloseOnce ==
    /\ [](bringup.runtime.made => bringup.master.closes = 0)
    /\ [](bringup.pc = "closed"
            => /\ ~bringup.runtime.made
               /\ bringup.master.closes = 1
               /\ bringup.master.opens = 1
               /\ ~bringup.master.open
               /\ bringup.master.state = INIT_STATE
               /\ bringup.error = NoError)
    /\ [][ bringup'.close_calls # bringup.close_calls
             => IF bringup.runtime.made
                THEN /\ bringup'.master.state = INIT_STATE
                     /\ bringup'.checked.expected = INIT_STATE
                     /\ bringup'.master.closes = bringup.master.closes + 1
                     /\ ~bringup'.master.open
                     /\ ~bringup'.runtime.made
                     /\ bringup'.pc = "closed"
                ELSE /\ bringup'.master = bringup.master
                     /\ bringup'.runtime = bringup.runtime
                     /\ bringup'.pc = bringup.pc
                     /\ bringup'.error = bringup.error
         ]_vars

\* C28 witness: initialize() returned, the first close() closed the
\* transport although its settle wait raised, and a second close() has been
\* made since, the transport having been closed once.
C28_Witness ==
    /\ bringup.pc = "closed"
    /\ bringup.close_calls = 2
    /\ bringup.swallowed = 1
    /\ bringup.master.closes = 1
    /\ ~bringup.runtime.made


\* C29: the first two bytes of what pack_command returns are, little-endian,
\* the controlword the transition table gives for the command's enable_drive
\* and clear_fault in the logical state decoded from the prior status word,
\* which is the controlword _controlword_from_command returns for them; the
\* third byte is the commanded mode of operation; the payload has the size
\* of the RX layout.
C29_PackedControlwordAndMode ==
    (call.fn = "pack_command" /\ call.done)
        => LET state == decode_cia402_state(call.status_word)
               controlword == UnpackU16(call.result, 0)
           IN /\ Len(call.result) = RX_PDO_SIZE
              /\ TableAllows(state, call.enable_drive, call.clear_fault, controlword)
              /\ controlword =
                   _controlword_from_command(
                       [ DefaultCommand EXCEPT !.enable_drive = call.enable_drive,
                                               !.clear_fault = call.clear_fault ],
                       state)
              /\ UnpackI8(call.result, 2) = call.mode

\* C29 witness: an enabling command in cyclic synchronous torque mode has
\* been packed on status word 0x0031 (READY_TO_SWITCH_ON): the payload
\* begins 07 00 0A.
C29_Witness ==
    /\ call.fn = "pack_command"
    /\ call.done
    /\ call.status_word = 49
    /\ call.enable_drive
    /\ call.mode = 10
    /\ SubSeq(call.result, 1, 3) = << 7, 0, 10 >>

\* C30: every flag _decode_statusword_bits returns is the value of its own
\* bit of the status word: ready_to_switch_on of bit 0, switched_on of bit
\* 1, operation_enabled of bit 2, fault of bit 3, voltage_enabled of bit 4,
\* switch_on_disabled of bit 6, warning of bit 7, remote of bit 9 and
\* target_reached of bit 10; quick_stop_active is true exactly when bit 5 is
\* clear.
C30_FlagsFollowTheirBits ==
    (call.fn = "_decode_statusword_bits" /\ call.done)
        => LET Bit(n) == BitAnd(call.status_word, 2 ^ n) # 0
           IN /\ call.result.ready_to_switch_on = Bit(0)
              /\ call.result.switched_on = Bit(1)
              /\ call.result.operation_enabled = Bit(2)
              /\ call.result.fault = Bit(3)
              /\ call.result.voltage_enabled = Bit(4)
              /\ call.result.quick_stop_active = ~Bit(5)
              /\ call.result.switch_on_disabled = Bit(6)
              /\ call.result.warning = Bit(7)
              /\ call.result.remote = Bit(9)
              /\ call.result.target_reached = Bit(10)

\* C30 witness: status word 0x0617 (bits 0, 1, 2, 4, 9 and 10, bit 5 clear)
\* has been decoded: quick stop is reported active, remote and target
\* reached are set, fault and warning are not.
C30_Witness ==
    /\ call.fn = "_decode_statusword_bits"
    /\ call.done
    /\ call.status_word = 1559
    /\ call.result.quick_stop_active
    /\ call.result.remote
    /\ call.result.target_reached
    /\ ~call.result.fault
    /\ ~call.result.warning


\* C31: the raw target position and velocity pack_command encodes are the
\* command's targets times the position and velocity factors of the scaling
\* it is given.
C31_TargetsFollowScaling ==
    (call.fn = "pack_command" /\ call.done)
        => /\ UnpackI32(call.result, 3)
                = _clamp_i32(call.target_position * call.scaling.position_lsb_per_rad)
           /\ UnpackI32(call.result, 7)
                = _clamp_i32(call.target_velocity * call.scaling.velocity_lsb_per_rad_s)


(***************************************************************************)
(* SpecEnable: the enable test (tests/ds402_enable_sequence.py) driving    *)
(* one Ds402SlaveAdapter against a drive that follows the CiA 402 state    *)
(* machine.  A cycle encodes the script's command with pack_rx_pdo, the    *)
(* drive acts on the controlword, and the cycle decodes the drive's status *)
(* word with unpack_tx_pdo.                                                *)
(***************************************************************************)

\* The fewest cycles the fault-reset phase of the script lasts
\* (--fault-reset-s at the cycle rate), and the count the model stops
\* counting at.
ResetCycles == 2
MaxResetCycles == 3

\* The Command the script submits in each pass of its loop (lines 91-107).
EnableScriptCommand(in_reset) ==
    [ DefaultCommand EXCEPT !.mode_of_operation = 10,
                            !.enable_drive = ~in_reset,
                            !.clear_fault = in_reset ]

\* The CiA 402 state machine of the drive: the state after controlword `cw`
\* in `state`; a fault is reset on the rising edge of bit 7.
DriveNext(state, reset_bit, cw) ==
    LET shutdown == BitSet(cw, 2) /\ BitSet(cw, 1) /\ ~BitSet(cw, 0)
        switch_on == ~BitSet(cw, 3) /\ BitSet(cw, 2) /\ BitSet(cw, 1) /\ BitSet(cw, 0)
        enable_op == BitSet(cw, 3) /\ BitSet(cw, 2) /\ BitSet(cw, 1) /\ BitSet(cw, 0)
        no_voltage == ~BitSet(cw, 1)
        quick_stop == BitSet(cw, 1) /\ ~BitSet(cw, 2)
    IN CASE state = "FAULT" ->
              IF BitSet(cw, 7) /\ ~reset_bit THEN "SWITCH_ON_DISABLED" ELSE "FAULT"
         [] state = "NOT_READY_TO_SWITCH_ON" -> "SWITCH_ON_DISABLED"
         [] state = "FAULT_REACTION_ACTIVE" -> "FAULT"
         [] state = "SWITCH_ON_DISABLED" ->
              IF shutdown THEN "READY_TO_SWITCH_ON" ELSE "SWITCH_ON_DISABLED"
         [] state = "READY_TO_SWITCH_ON" ->
              IF no_voltage \/ quick_stop THEN "SWITCH_ON_DISABLED"
              ELSE IF switch_on \/ enable_op THEN "SWITCHED_ON"
              ELSE "READY_TO_SWITCH_ON"
         [] state = "SWITCHED_ON" ->
              IF no_voltage \/ quick_stop THEN "SWITCH_ON_DISABLED"
              ELSE IF shutdown THEN "READY_TO_SWITCH_ON"
              ELSE IF enable_op THEN "OPERATION_ENABLED"
              ELSE "SWITCHED_ON"
         [] state = "OPERATION_ENABLED" ->
              IF no_voltage THEN "SWITCH_ON_DISABLED"
              ELSE IF quick_stop THEN "QUICK_STOP_ACTIVE"
              ELSE IF shutdown THEN "READY_TO_SWITCH_ON"
              ELSE IF switch_on THEN "SWITCHED_ON"
              ELSE "OPERATION_ENABLED"
         [] state = "QUICK_STOP_ACTIVE" ->
              IF no_voltage THEN "SWITCH_ON_DISABLED"
              ELSE IF enable_op THEN "OPERATION_ENABLED"
              ELSE "QUICK_STOP_ACTIVE"

\* The status words a drive in `state` reports: the bits of the state, with
\* voltage-enabled (bit 4) and remote (bit 9) either way, and bit 5 either
\* way in the states that do not define it.
DriveStatusWords(state) ==
    LET base == CASE state = "NOT_READY_TO_SWITCH_ON" -> 0
                  [] state = "SWITCH_ON_DISABLED" -> 64
                  [] state = "READY_TO_SWITCH_ON" -> 33
                  [] state = "SWITCHED_ON" -> 35
                  [] state = "OPERATION_ENABLED" -> 39
                  [] state = "QUICK_STOP_ACTIVE" -> 7
                  [] state = "FAULT_REACTION_ACTIVE" -> 15
                  [] state = "FAULT" -> 8
        free == IF state \in { "NOT_READY_TO_SWITCH_ON", "SWITCH_ON_DISABLED",
                               "FAULT_REACTION_ACTIVE", "FAULT" }
                THEN { 0, 32 } ELSE { 0 }
    IN { base + v + q + r : v \in { 0, 16 }, q \in free, r \in { 0, 512 } }

InitEnable ==
    /\ InitLoop
    /\ bringup = BroughtUp
    /\ call \in { [ fn |-> "enable_sequence", in_reset |-> TRUE, cycles |-> 0,
                    step |-> "encode", started |-> state, before |-> state,
                    drive |-> state, reset_bit |-> FALSE, controlword |-> 0 ]
                    : state \in { "FAULT", "SWITCH_ON_DISABLED" } }

\* The first half of a cycle: the adapter encodes the command the script
\* holds, and the drive acts on the controlword of the payload.
EnableEncode ==
    /\ call.fn = "enable_sequence"
    /\ call.step = "encode"
    /\ \E payload \in pack_rx_pdo("drive1", EnableScriptCommand(call.in_reset),
                                  last_status_word["drive1"]) :
         LET cw == UnpackU16(payload, 0)
         IN call' = [ call EXCEPT
                        !.step = "decode",
                        !.controlword = cw,
                        !.before = call.drive,
                        !.drive = DriveNext(call.drive, call.reset_bit, cw),
                        !.reset_bit = BitSet(cw, 7) ]
    /\ UNCHANGED loopVars
    /\ UNCHANGED last_status_word

\* The second half: the input buffer holds a status word of the drive's
\* state, or still of the state it had before this cycle's controlword, and
\* the adapter decodes it.
EnableDecode ==
    /\ call.fn = "enable_sequence"
    /\ call.step = "decode"
    /\ \E reported \in { call.before, call.drive } :
         \E word \in DriveStatusWords(reported) :
           \E r \in { unpack_tx_pdo("drive1", TxFrame(TX_PDO_SIZE, word),
                                    last_status_word["drive1"], 0, 0, 0, 0) } :
             /\ last_status_word' =
                    [ last_status_word EXCEPT !["drive1"] = r.last_status_word ]
             /\ call' = [ call EXCEPT
                            !.step = "encode",
                            !.cycles = IF @ < MaxResetCycles THEN @ + 1 ELSE @ ]
    /\ UNCHANGED loopVars

\* The script's clock passes reset_deadline: from then on it submits
\* enable_drive=True, clear_fault=False.
EnableAfterReset ==
    /\ call.fn = "enable_sequence"
    /\ call.in_reset
    /\ call.cycles >= ResetCycles
    /\ call' = [ call EXCEPT !.in_reset = FALSE ]
    /\ UNCHANGED loopVars
    /\ UNCHANGED last_status_word

NextEnable ==
    \/ EnableEncode
    \/ EnableDecode
    \/ EnableAfterReset

\* The driver thread goes on cycling and the reset deadline passes.
SpecEnable ==
    /\ InitEnable
    /\ [][NextEnable]_vars
    /\ WF_vars(EnableEncode)
    /\ WF_vars(EnableDecode)
    /\ WF_vars(EnableAfterReset)

\* C32: from FAULT and from SWITCH_ON_DISABLED the enable sequence brings
\* the drive to OPERATION_ENABLED for good; once the script commands
\* enable_drive, a drive in OPERATION_ENABLED is left there by every cycle.
C32_EnableSequenceReachesOperation ==
    /\ <>[](call.drive = "OPERATION_ENABLED")
    /\ [][ (~call.in_reset /\ call.drive = "OPERATION_ENABLED")
             => call'.drive = "OPERATION_ENABLED" ]_vars

\* C32 witness: a drive that started in FAULT is in OPERATION_ENABLED in the
\* enable phase, the adapter having decoded that state and encoded Enable
\* Operation for it.
C32_Witness ==
    /\ call.started = "FAULT"
    /\ ~call.in_reset
    /\ call.drive = "OPERATION_ENABLED"
    /\ call.before = "OPERATION_ENABLED"
    /\ call.controlword = 15
    /\ decode_cia402_state(last_status_word["drive1"]) = "OPERATION_ENABLED"


(***************************************************************************)
(* The command snapshot of a cycle, checked under Spec.                    *)
(***************************************************************************)

\* The by_slave map of the SystemCommand whose set_command returned last.
SubmittedBySlave ==
    IF hist.submitted = 0 THEN DefaultSystemCommand.by_slave
    ELSE Submissions[hist.submitted].by_slave

\* Thread t is between the payloads of its cycle and the decoding of the
\* inputs (which renews the status word the DS402 encoding depends on).
EncodingCycle(t) == pc[t] \in { "ro_encode", "ro_send", "ro_recv" }

\* C33: within one cycle every slave is encoded from the one command
\* snapshot taken at the start of run_once: each payload written so far in
\* the cycle is the encoding of the snapshot's entry, also after a
\* set_command has replaced the pending command in the meantime; such a
\* set_command changes no payload and not the snapshot; and the snapshot of
\* the next cycle holds the entries of the command submitted last.
C33_OneSnapshotPerCycle ==
    /\ [](\A t \in Drivers, k \in DOMAIN SlaveNames :
            (EncodingCycle(t) /\ Encoded(t, k))
                => output[SlaveNames[k]]
                     = EncodingOf(SlaveNames[k], loc[t].command.by_slave))
    /\ [][\A t \in Drivers :
            /\ (EncodingCycle(t) /\ hist'.raced > hist.raced)
                   => (output' = output /\ loc'[t] = loc[t])
            /\ (pc[t] = "ro_snapshot" /\ pc'[t] = "ro_encode")
                   => loc'[t].command.by_slave = SubmittedBySlave]_vars

\* C33 witness: the drive has been encoded from the snapshot of the first
\* submission, the second submission has replaced the pending command while
\* the cycle runs, and the other slave is about to be encoded.
C33_Witness ==
    \E t \in Drivers :
        /\ pc[t] = "ro_encode"
        /\ loc[t].i = 2
        /\ loc[t].src = 1
        /\ hist.raced > 0
        /\ hist.submitted = 2
        /\ pending_command.by_slave # loc[t].command.by_slave
        /\ output["drive1"] = pack_command(CmdReset, PdoScalingDefaults,
                                           last_status_word["drive1"])


(***************************************************************************)
(* The order of the per-slave steps of bring-up, checked under SpecBringUp.*)
(***************************************************************************)

\* The names of the startup parameters declared for a slave of `kind`.
StartupNames(kind) ==
    { startup_read_specs(kind)[j].name : j \in DOMAIN startup_read_specs(kind) }

\* Configured slave number n has passed the position check of line 150 and
\* the comparison of its vendor and product with the slave at its position.
PassedChecks(n) ==
    LET cfg == bringup.config.slaves[n]
        slave == SlaveAt(bringup.master.slaves, cfg.position)
    IN /\ cfg.position < Len(bringup.master.slaves)
       /\ cfg.vendor_id = 0 \/ slave.man = cfg.vendor_id
       /\ cfg.product_code = 0 \/ slave.id = cfg.product_code

\* Every step of configured slave number n has succeeded: its startup
\* parameters are stored, its whole pdo_mapping is written and the slave is
\* entered in slaves_by_name.
SlaveDone(n) ==
    LET cfg == bringup.config.slaves[n]
    IN /\ cfg.name \in DOMAIN bringup'.slaves_by_name
       /\ cfg.name \in DOMAIN bringup.startup_params
       /\ DOMAIN bringup.startup_params[cfg.name] = StartupNames(cfg.kind)
       /\ Len(WritesTo(cfg.name)) = Len(cfg.pdo_mapping)

\* C34: bring-up takes the configured slaves one by one in list order and,
\* for each, the steps in the order position check, identity validation,
\* startup SDO reads, PDO remap writes: the slave in turn advances by one
\* and only when every step of the slave before has succeeded; the startup
\* reads of a slave begin only from the head of the loop, with its position
\* and identity accepted; its remap writes begin only after all its
\* declared parameters were read; every read or write attempt is made on
\* the slave in turn, which has passed both checks, and every write that
\* succeeds is for the slave in turn.
C34_SlavesInOrderStepsInOrder ==
    [][ LET i == bringup.i
            slaves == bringup.config.slaves
        IN /\ bringup'.i # i
                => /\ bringup'.i = i + 1
                   /\ bringup.pc = "pdo" /\ bringup'.pc = "slave"
                   /\ SlaveDone(i)
           /\ (bringup.pc # "sdo" /\ bringup'.pc = "sdo")
                => /\ bringup.pc = "slave"
                   /\ bringup'.i = i
                   /\ PassedChecks(i)
                   /\ bringup'.values = EmptyMap
                   /\ slaves[i].name \notin DOMAIN bringup.startup_params
                   /\ WritesTo(slaves[i].name) = << >>
           /\ (bringup.pc # "pdo" /\ bringup'.pc = "pdo")
                => /\ bringup.pc = "sdo"
                   /\ bringup'.i = i
                   /\ DOMAIN bringup.values = StartupNames(slaves[i].kind)
                   /\ WritesTo(slaves[i].name) = << >>
           /\ (bringup.pc \in { "sdo", "pdo" } /\ bringup' # bringup)
                => /\ i \in DOMAIN slaves
                   /\ PassedChecks(i)
                   /\ \A m \in 1 .. i - 1 :
                          slaves[m].name \in DOMAIN bringup.slaves_by_name
           /\ bringup'.master.writes # bringup.master.writes
                => /\ bringup.pc = "pdo"
                   /\ bringup'.master.writes[Len(bringup'.master.writes)].name
                        = slaves[i].name
      ]_vars

\* C34 witness: the second configured slave is having its parameters read
\* (one is read already) after the first slave's parameters were stored and
\* both entries of its pdo_mapping written; nothing was written to the
\* second slave.
C34_Witness ==
    /\ bringup.pc = "sdo"
    /\ bringup.i = 2
    /\ bringup.k >= 2
    /\ PassedChecks(2)
    /\ "drive1" \in DOMAIN bringup.startup_params
    /\ "drive1" \in DOMAIN bringup.slaves_by_name
    /\ Len(WritesTo("drive1")) = 2
    /\ WritesTo("drive2") = << >>


(***************************************************************************)
(* The held setpoint, checked under Spec.                                  *)
(***************************************************************************)

\* C35: when no set_command was called since the snapshot of the cycle
\* before, a cycle's snapshot holds for every slave the per-slave command of
\* the cycle before, with the sequence number one higher and a stamp that is
\* not earlier; a slave that had an entry in the cycle before is without one
\* only when a SystemCommand submitted since omits it (and only a slave
\* without an entry is given the zero-filled buffer of line 139).
C35_HeldSetpoint ==
    [][\A t \in Drivers :
        (pc[t] = "ro_snapshot" /\ pc'[t] = "ro_encode" /\ hist.cycles >= 1)
            => /\ hist.raced = 0
                   => /\ loc'[t].command.by_slave = hist.held
                      /\ loc'[t].command.seq = hist.last_seq + 1
                      /\ loc'[t].command.stamp_ns >= pending_command.stamp_ns
               /\ \A n \in DOMAIN hist.held :
                      n \notin DOMAIN loc'[t].command.by_slave
                          => /\ hist.raced > 0
                             /\ n \notin DOMAIN SubmittedBySlave]_vars

\* C35 witness: the second cycle started with no set_command since the
\* first, and has encoded the drive from the entry the first cycle ran on.
C35_Witness ==
    \E t \in Drivers :
        /\ pc[t] = "ro_encode"
        /\ loc[t].i = 2
        /\ hist.cycles = 2
        /\ loc[t].raced = 0
        /\ loc[t].command.seq = 2
        /\ loc[t].command.by_slave = Submissions[1].by_slave
        /\ ~AllZero(output["drive1"])


(***************************************************************************)
(* The controlwords of one adapter over its calls, checked under           *)
(* SpecAdapter.                                                            *)
(***************************************************************************)

\* C36: over any sequence of pack_rx_pdo and unpack_tx_pdo calls on one
\* DS402 adapter, the controlword of an encoded payload is 0x000F only for a
\* command with enable_drive set while the status word of the last buffer
\* the adapter decoded (0 when it has decoded none) decodes to SWITCHED_ON,
\* OPERATION_ENABLED or QUICK_STOP_ACTIVE, and is 0x0080 only for a command
\* with clear_fault set while that status word decodes to FAULT; every
\* controlword encoded before the first decode is 0x0000; and for a command
\* without enable_drive it is neither 0x0007 nor 0x000F.
C36_ControlwordFollowsDecodedState ==
    call.fn = "pack_rx_pdo" =>
        LET controlword == UnpackU16(call.payload, 0)
            state == decode_cia402_state(call.decoded.word)
        IN /\ controlword = 15
               => /\ call.command.enable_drive
                  /\ state \in { "SWITCHED_ON", "OPERATION_ENABLED",
                                 "QUICK_STOP_ACTIVE" }
           /\ controlword = 128
               => /\ call.command.clear_fault
                  /\ state = "FAULT"
           /\ ~call.decoded.any => controlword = 0
           /\ ~call.command.enable_drive => controlword \notin { 7, 15 }

\* C36 witness: the last buffer the adapter decoded carried status word
\* 0x0023 (SWITCHED_ON), and it has encoded 0x000F for a command with
\* enable_drive set.
C36_Witness ==
    /\ call.fn = "pack_rx_pdo"
    /\ call.command.enable_drive
    /\ call.decoded.any
    /\ call.decoded.word = 35
    /\ decode_cia402_state(call.decoded.word) = "SWITCHED_ON"
    /\ UnpackU16(call.payload, 0) = 15


(***************************************************************************)
(* The transport after a failed bring-up, checked under SpecClose.         *)
(***************************************************************************)

\* C37: when initialize() has raised after the transport was opened and the
\* caller's close() has returned since, the transport is closed.
C37_NoTransportLeak ==
    (bringup.pc = "raised" /\ bringup.master.opens > 0 /\ bringup.close_calls > 0)
        => /\ ~bringup.master.open
           /\ bringup.master.closes = bringup.master.opens


(***************************************************************************)
(* SpecScript: main() of tests/ds402_enable_sequence.py from loop.start()  *)
(* on.  The master has been initialized; the main thread starts the loop,  *)
(* submits commands and reads the status in its while loop, leaves the     *)
(* loop at the deadline (then calls loop.stop()) or by an exception (then  *)
(* does not), and calls master.close() in the finally block.  The driver   *)
(* thread is a daemon thread that runs as in SpecSched.                    *)
(***************************************************************************)

\* The startup parameters _read_adapter_startup_params returned for a drive.
ScriptParams ==
    [ n \in { startup_read_specs("ds402")[j].name :
                j \in DOMAIN startup_read_specs("ds402") } |-> << 0, 0, 128, 63 >> ]

\* The EthercatMaster after initialize() has returned for the topology of
\* two drives on a bus of two drives, every state wait having succeeded.
ReturnedMaster ==
    LET config == CHOOSE c \in Topologies : Len(c.slaves) = 2
        names == { config.slaves[n].name : n \in DOMAIN config.slaves }
        params == [ n \in names |-> ScriptParams ]
        by_name == [ n \in names |-> IF n = "drive1" THEN 0 ELSE 1 ]
        new == NewMaster(config, [ installed |-> TRUE, has_safeop |-> TRUE ])
    IN [ new EXCEPT
           !.pc = "returned", !.i = 3, !.rounds = 1,
           !.master = [ open |-> TRUE, opens |-> 1, closes |-> 0, maps |-> 1,
                        state |-> OP_STATE,
                        slaves |-> [ n \in 1..2 |->
                                       [ DetectedSlave(716, TX_PDO_SIZE)
                                           EXCEPT !.state = OP_STATE ] ],
                        writes |-> [ j \in 1..2 |->
                                       [ name |-> "drive1",
                                         index |-> config.slaves[1].pdo_mapping[j].index,
                                         subindex |-> config.slaves[1].pdo_mapping[j].subindex ] ] ],
           !.checked = [ expected |-> SAFEOP_STATE, state |-> SAFEOP_STATE ],
           !.values = ScriptParams,
           !.startup_params = params,
           !.slaves_by_name = by_name,
           !.runtime = [ made |-> TRUE, adapters |-> names,
                         slaves_by_name |-> by_name, startup_params |-> params ] ]

InitScript ==
    /\ InitLoop
    /\ call = [ fn |-> "main", at |-> "body" ]
    /\ bringup = ReturnedMaster

\* Line 83: loop.start(), called once.
ScriptStart ==
    /\ hist.returned = "none"
    /\ \/ StartCheck(MainThread)
       \/ StartClear(MainThread)
       \/ StartCreate(MainThread)
       \/ StartStart(MainThread)

\* Lines 91-128: one pass of the while loop submits a command and may read
\* the status.
ScriptSetCommand(k) ==
    /\ call.at = "body"
    /\ hist.returned = "start"
    /\ SetCommand(MainThread, k)

ScriptGetStatus ==
    /\ call.at = "body"
    /\ hist.returned = "start"
    /\ GetStatus(MainThread)

\* The while loop ends at the deadline (line 91), or an exception raised in
\* its body (a KeyboardInterrupt during the sleep of line 128, for one)
\* leaves the try block for the finally block, past loop.stop().
ScriptLeave(raised) ==
    /\ call.at = "body"
    /\ hist.returned = "start"
    /\ pc[MainThread] = "idle"
    /\ call' = [ call EXCEPT !.at = IF raised THEN "finally" ELSE "stop" ]
    /\ UNCHANGED << pending_command, latest_status, stats, thread, stop_event, pc,
                    loc, next_tick, output, input, last_status_word, now, got,
                    hist, bringup >>

\* Line 130: loop.stop().
ScriptStop ==
    /\ call.at = "stop"
    /\ hist.returned = "start"
    /\ \/ StopSet(MainThread)
       \/ StopJoin(MainThread)

\* Line 133: master.close() in the finally block, reached after loop.stop()
\* has returned or by the exception.
ScriptClose ==
    /\ \/ call.at = "finally"
       \/ call.at = "stop" /\ hist.returned = "stop"
    /\ pc[MainThread] = "idle"
    /\ bringup.pc = "returned"
    /\ Close

NextScript ==
    \/ ScriptStart
    \/ \E k \in DOMAIN Submissions : ScriptSetCommand(k)
    \/ ScriptGetStatus
    \/ \E raised \in BOOLEAN : ScriptLeave(raised)
    \/ ScriptStop
    \/ ScriptClose
    \/ \E d \in Drivers : DriverRun(d)

SpecScript == InitScript /\ [][NextScript]_vars

\* C38: the driver thread makes no send or receive of process data on a
\* transport that master.close() has closed: on every path of the script
\* from loop.start() to master.close(), no cycle passes its send or its
\* receive once the transport is closed.
C38_NoCycleOnClosedTransport ==
    [][ \A d \in Drivers :
          (pc[d] \in { "ro_send", "ro_recv" } /\ pc'[d] # pc[d])
              => bringup.master.open ]_vars


(***************************************************************************)
(* A cycle of the driver that raises, checked under Spec.                  *)
(***************************************************************************)

\* The driver threads whose cycle raised.
Failed == { d \in Drivers : loc[d].error # "" }

\* C39: when a cycle of the driver thread raises (a payload of the wrong
\* size, or an input buffer too short to decode), the thread ends: the step
\* that raises changes neither the latest status nor the statistics, so the
\* cycle is not published and not counted (cycle_count is the number of
\* cycles started less the failed one and the one in progress); a thread
\* that has ended takes no further step, and a cycle that runs later is run
\* by another thread, the one a later start() created; the latest status and
\* the statistics change only when a cycle without an error publishes.
C39_FailedCycleEndsDriver ==
    /\ [](/\ \A d \in Failed : pc[d] = "dead"
          /\ stats.cycle_count
               = hist.cycles - Cardinality(Failed)
                   - Cardinality({ d \in Drivers :
                                     pc[d] \in CyclePcs \ { "ro_snapshot" } })
          /\ \A d \in Failed, e \in Drivers :
                 pc[e] \in CyclePcs
                     => e # d /\ thread = e)
    /\ [][ /\ \A d \in Drivers :
                /\ (loc[d].error = "" /\ loc'[d].error # "")
                       => /\ pc[d] \in { "ro_encode", "ro_decode" }
                          /\ pc'[d] = "dead"
                          /\ latest_status' = latest_status
                          /\ stats' = stats
                /\ pc[d] = "dead" => (pc'[d] = "dead" /\ loc'[d] = loc[d])
           /\ (latest_status' # latest_status \/ stats' # stats)
                => \E t \in Drivers :
                       /\ pc[t] = "ro_publish" /\ loc[t].error = ""
                       /\ stats'.cycle_count = stats.cycle_count + 1
         ]_vars

\* C39 witness: the first cycle was published; the second got an input
\* buffer too short to decode and ended the driver thread; one cycle is
\* counted and the latest status is the first cycle's.
C39_Witness ==
    \E d \in Drivers :
        /\ pc[d] = "dead"
        /\ loc[d].error = "decode"
        /\ hist.cycles = 2
        /\ stats.cycle_count = 1
        /\ latest_status.seq = 1
        /\ DOMAIN latest_status.by_slave = SlaveSet


(***************************************************************************)
(* The states the two decoders can return, checked under SpecCodec.        *)
(***************************************************************************)

\* C40: in the baseline codec and in the codec of the DS402 adapter, every
\* one of the eight logical states is the result of decode_cia402_state for
\* at least one 16-bit status word.
C40_EveryStateDecodable ==
    (call.fn = "decode_every_word" /\ call.done)
        => call.result = DriveCiA402States

====
